---- MODULE Spec2Model ----
(***************************************************************************)
(* fb-cpp: lifecycle of the owning wrapper objects (Transaction,           *)
(* Statement, Attachment) over the Firebird engine, in the modern          *)
(* (OO API) build and in the legacy (FB_CPP_LEGACY_API, ISC API) build.    *)
(*                                                                         *)
(* A run follows one object of one class (cls) from its construction,      *)
(* together with the objects move-constructed from it.  The engine is an   *)
(* external collaborator: every engine call either succeeds or reports an  *)
(* error, chosen nondeterministically.  A failing engine call leaves the   *)
(* engine state as it was.                                                 *)
(*                                                                         *)
(* assert(...) at the head of a method is the method's documented          *)
(* precondition and is the guard of the action.  The assert inside         *)
(* ~Transaction is modelled as the code behaves: it terminates the process *)
(* when assertions are compiled in and does nothing under NDEBUG.          *)
(*                                                                         *)
(* The row buffers of a prepared statement have specifications of their    *)
(* own: SpecRow (null flags and indexed accessors, both builds), SpecBind  *)
(* (record and tuple binding) and SpecVariant (variant reading).  They     *)
(* start from a statement that has been constructed and leave the          *)
(* lifecycle variables alone.  So do SpecNumber (the magnitudes numeric    *)
(* setters store and getters read), SpecText (setters on a VARCHAR and a   *)
(* SMALLINT parameter) and SpecMetadata (the layout the constructor        *)
(* derives from the engine's metadata).  SpecCalendar converts one         *)
(* calendar value per run with the Date and Timestamp of the legacy build. *)
(***************************************************************************)
EXTENDS Integers, Sequences, FiniteSets, TLC

\* Bounds of the model.
MaxObjects == 2
MaxAttachments == 2
MaxClients == 2
MaxRows == 2
MaxCols == 1

Obj == 1..MaxObjects
Clients == 1..MaxClients

Classes == {"Transaction", "Statement", "Attachment"}

\* enum class StatementType
StatementType ==
    {"SELECT", "INSERT", "UPDATE", "DELETE", "DDL", "GET_SEGMENT", "PUT_SEGMENT",
     "EXEC_PROCEDURE", "START_TRANSACTION", "COMMIT", "ROLLBACK",
     "SELECT_FOR_UPDATE", "SET_GENERATOR", "SAVEPOINT"}

VARIABLES
    legacy,           \* FB_CPP_LEGACY_API: TRUE in the Firebird 2.5 (ISC API) build
    ndebug,           \* NDEBUG: TRUE when assert() is compiled out
    cls,              \* class of the objects this run follows
    life,             \* life[i]: "unborn", "alive" or "destroyed"
    handle,           \* handle[i]: "null" or "h" (the engine handle / FbRef)
    movedFrom,        \* movedFrom[i]: object i was the source of a move construction
    txState,          \* Transaction::state: "ACTIVE", "PREPARED", "COMMITTED", "ROLLED_BACK"
    isMultiDatabase,  \* Transaction::isMultiDatabase
    attachments,      \* clients of the attachments the Transaction was constructed over
    cursor,           \* Statement::resultSetHandle != nullptr / Statement::cursorOpen_
    stType,           \* Statement::type / Statement::type_
    outCols,          \* number of output columns (outSqlda_.get()->sqld)
    outRow,           \* row held by the output buffer, 0 when none
    engTx,            \* engine side of the transaction
    engStmt,          \* engine side of the statement handle
    engCursors,       \* number of cursors the engine holds open for the statement
    engRows,          \* rows of the open result set
    engPos,           \* rows of the open result set delivered so far
    engAtt,           \* engine side of the attachment
    op,               \* the last operation: [name, obj]
    calls,            \* engine calls made by the last operation: sequence of [fn, ok]
    outcome,          \* how the last operation ended: "returned", "threw_usage" (FbCppException
                      \* / Exception(message)), "threw_engine" (DatabaseException /
                      \* Exception(status)), "threw_invalid_argument", "aborted" (assert)
    ret,              \* value returned by the last operation, "none" when void or thrown
    aborted,          \* the process was terminated by a failed assert
    boost,            \* FB_CPP_USE_BOOST_MULTIPRECISION != 0 (modern build)
    inDescriptors,    \* Statement::inDescriptors / inSqlda_: [adjustedType, scale] per parameter
    outDescriptors,   \* Statement::outDescriptors / outSqlda_: [adjustedType, scale] per column
    inNull,           \* inNull[k]: the null flag of parameter k-1 reads as null
    outNull,          \* outNull[k]: the null flag of column k-1 reads as null
    args,             \* arguments of the last accessor call: [index, type, fields, alts,
                      \* value, scale]
    touched,          \* buffer slots the last accessor call read or wrote: <<side, index>>
    inMessage,        \* input message: the magnitude stored in each numeric parameter slot
    outMessage        \* output message: the magnitude stored in each numeric column slot

objVars == <<life, handle, movedFrom>>
txVars == <<txState, isMultiDatabase, attachments>>
stVars == <<cursor, stType, outCols, outRow>>
engTxVars == <<engTx>>
engStVars == <<engStmt, engCursors, engRows, engPos>>
engAttVars == <<engAtt>>
histVars == <<op, calls, outcome, ret>>
cfgVars == <<legacy, ndebug, cls, aborted>>
msgVars == <<boost, inDescriptors, outDescriptors, inNull, outNull, args, touched,
             inMessage, outMessage>>

vars == <<legacy, ndebug, cls, life, handle, movedFrom, txState, isMultiDatabase,
          attachments, cursor, stType, outCols, outRow, engTx, engStmt, engCursors,
          engRows, engPos, engAtt, op, calls, outcome, ret, aborted, boost,
          inDescriptors, outDescriptors, inNull, outNull, args, touched, inMessage,
          outMessage>>

Call(fn, ok) == [fn |-> fn, ok |-> ok]

\* Bookkeeping of the last operation.
Done(nm, i, cs, out, r) ==
    /\ op' = [name |-> nm, obj |-> i]
    /\ calls' = cs
    /\ outcome' = out
    /\ ret' = r

\* No accessor has been called.
NoArg == [index |-> 0, type |-> "none", fields |-> <<>>, alts |-> <<>>, value |-> "none",
          scale |-> "none"]

\* The messages of a statement without parameters and columns.
NoMessages ==
    /\ boost = FALSE
    /\ inDescriptors = <<>>
    /\ outDescriptors = <<>>
    /\ inNull = <<>>
    /\ outNull = <<>>
    /\ args = NoArg
    /\ touched = {}
    /\ inMessage = <<>>
    /\ outMessage = <<>>

\* The state before any object has been constructed.
Init ==
    /\ legacy \in BOOLEAN
    /\ ndebug \in BOOLEAN
    /\ cls \in Classes
    /\ life = [i \in Obj |-> "unborn"]
    /\ handle = [i \in Obj |-> "null"]
    /\ movedFrom = [i \in Obj |-> FALSE]
    /\ txState = [i \in Obj |-> "ACTIVE"]
    /\ isMultiDatabase = [i \in Obj |-> FALSE]
    /\ attachments = <<>>
    /\ cursor = [i \in Obj |-> FALSE]
    /\ stType = "SELECT"
    /\ outCols = 0
    /\ outRow = 0
    /\ engTx = "none"
    /\ engStmt = "none"
    /\ engCursors = 0
    /\ engRows = 0
    /\ engPos = 0
    /\ engAtt = "none"
    /\ op = [name |-> "none", obj |-> 0]
    /\ calls = <<>>
    /\ outcome = "none"
    /\ ret = "none"
    /\ aborted = FALSE
    /\ NoMessages

\* An FbRef that has been moved from holds nullptr (SmartPtrs.h).
FbRefMovedFrom(h) == "null"

\* Statement(Statement&&), legacy build: o.cursorOpen_ = false.
LegacyCursorMovedFrom(c) == FALSE


\* Mutant: the move constructor does not zero the handle of its source.
LegacyMovedFrom_mut(h) == h

\* A legacy handle copied by a move construction: the source is zeroed explicitly.
LegacyMovedFrom(h) == "null"

(***************************************************************************)
(* Transaction                                                             *)
(***************************************************************************)

\* Transaction::isValid
TxIsValid(i) == handle[i] # "null"

Running(c, i) == cls = c /\ ~aborted /\ life[i] = "alive"


\* Mutant: the validation loop stops before the last attachment.
SameClient_mut(atts) == \A k \in 1..(Len(atts) - 1) : atts[k] = atts[1]

\* All attachments of a multi-database transaction use the Client of the first one.
SameClient(atts) == \A k \in 1..Len(atts) : atts[k] = atts[1]

AttachmentLists == UNION {[1..n -> Clients] : n \in 1..MaxAttachments}

\* Transaction::Transaction(Attachment&, const TransactionOptions&)
TxCtor ==
    /\ cls = "Transaction" /\ ~aborted /\ life[1] = "unborn"
    /\ \E ok \in BOOLEAN :
        /\ IF ok
             THEN /\ life' = [life EXCEPT ![1] = "alive"]
                  /\ handle' = [handle EXCEPT ![1] = "h"]
                  /\ engTx' = "active"
             ELSE UNCHANGED <<life, handle, engTx>>
        /\ Done("ctor", 1, <<Call("startTransaction", ok)>>,
                IF ok THEN "returned" ELSE "threw_engine", "none")
    /\ attachments' = <<1>>
    /\ UNCHANGED <<movedFrom, txState, isMultiDatabase, stVars, engStVars, engAttVars, cfgVars, msgVars>>

\* Transaction::Transaction(std::span<std::reference_wrapper<Attachment>>, ...)
TxCtorMulti(atts, ok) ==
    /\ cls = "Transaction" /\ ~aborted /\ life[1] = "unborn"
    /\ ~legacy
    /\ attachments' = atts
    /\ IF ~SameClient(atts)
         THEN /\ Done("ctorMulti", 1, <<>>, "threw_invalid_argument", "none")
              /\ UNCHANGED <<life, handle, engTx, isMultiDatabase>>
         ELSE /\ Done("ctorMulti", 1, <<Call("dtcStart", ok)>>,
                      IF ok THEN "returned" ELSE "threw_engine", "none")
              /\ IF ok
                   THEN /\ life' = [life EXCEPT ![1] = "alive"]
                        /\ handle' = [handle EXCEPT ![1] = "h"]
                        /\ isMultiDatabase' = [isMultiDatabase EXCEPT ![1] = TRUE]
                        /\ engTx' = "active"
                   ELSE UNCHANGED <<life, handle, engTx, isMultiDatabase>>
    /\ UNCHANGED <<movedFrom, txState, stVars, engStVars, engAttVars, cfgVars, msgVars>>

\* Transaction::commit / Transaction::rollback, modern build: the status wrapper
\* throws out of the engine call, before the handle and the state are touched.
TxFinishModern(i, final, engFinal, ok) ==
    IF ok
      THEN /\ handle' = [handle EXCEPT ![i] = "null"]
           /\ txState' = [txState EXCEPT ![i] = final]
           /\ engTx' = engFinal
      ELSE UNCHANGED <<handle, txState, engTx>>

\* Transaction::commit / Transaction::rollback, legacy build: the handle and the
\* state are set before the status vector is examined.
TxFinishLegacy(i, final, engFinal, ok) ==
    /\ handle' = [handle EXCEPT ![i] = "null"]
    /\ txState' = [txState EXCEPT ![i] = final]
    /\ engTx' = IF ok THEN engFinal ELSE engTx

\* The effect of commit() on the object and the engine, in the build in use.
TxCommitEffect(i, ok) ==
    IF legacy THEN TxFinishLegacy(i, "COMMITTED", "committed", ok)
              ELSE TxFinishModern(i, "COMMITTED", "committed", ok)


\* Mutant: rollback() records the final state of commit().
TxRollbackEffect_mut(i, ok) ==
    IF legacy THEN TxFinishLegacy(i, "COMMITTED", "rolledback", ok)
              ELSE TxFinishModern(i, "COMMITTED", "rolledback", ok)

\* The effect of rollback() on the object and the engine, in the build in use.
TxRollbackEffect(i, ok) ==
    IF legacy THEN TxFinishLegacy(i, "ROLLED_BACK", "rolledback", ok)
              ELSE TxFinishModern(i, "ROLLED_BACK", "rolledback", ok)

\* assert(isValid()); assert(state == ACTIVE || state == PREPARED);
TxFinishGuard(i) == TxIsValid(i) /\ txState[i] \in {"ACTIVE", "PREPARED"}

\* Transaction::commit
TxCommit(i) ==
    /\ Running("Transaction", i)
    /\ TxFinishGuard(i)
    /\ \E ok \in BOOLEAN :
        /\ TxCommitEffect(i, ok)
        /\ Done("commit", i, <<Call("commit", ok)>>,
                IF ok THEN "returned" ELSE "threw_engine", "none")
    /\ UNCHANGED <<life, movedFrom, isMultiDatabase, attachments, stVars, engStVars,
                   engAttVars, cfgVars, msgVars>>

\* Transaction::rollback
TxRollback(i) ==
    /\ Running("Transaction", i)
    /\ TxFinishGuard(i)
    /\ \E ok \in BOOLEAN :
        /\ TxRollbackEffect(i, ok)
        /\ Done("rollback", i, <<Call("rollback", ok)>>,
                IF ok THEN "returned" ELSE "threw_engine", "none")
    /\ UNCHANGED <<life, movedFrom, isMultiDatabase, attachments, stVars, engStVars,
                   engAttVars, cfgVars, msgVars>>


\* Mutant: the retaining operations accept a PREPARED transaction.
TxActiveGuard_mut(i) == TxIsValid(i) /\ txState[i] \in {"ACTIVE", "PREPARED"}

\* assert(isValid()); assert(state == TransactionState::ACTIVE);
TxActiveGuard(i) == TxIsValid(i) /\ txState[i] = "ACTIVE"

\* Transaction::commitRetaining / Transaction::rollbackRetaining: the engine call
\* only; neither the handle nor the state is written, in both builds.
TxRetaining(i, fn) ==
    /\ Running("Transaction", i)
    /\ TxActiveGuard(i)
    /\ \E ok \in BOOLEAN :
        Done(fn, i, <<Call(fn, ok)>>, IF ok THEN "returned" ELSE "threw_engine", "none")
    /\ UNCHANGED <<objVars, txVars, stVars, engTxVars, engStVars, engAttVars, cfgVars, msgVars>>

TxCommitRetaining(i) == TxRetaining(i, "commitRetaining")

TxRollbackRetaining(i) == TxRetaining(i, "rollbackRetaining")

\* Transaction::prepare (modern build only; the legacy build does not define it)
TxPrepare(i) ==
    /\ Running("Transaction", i)
    /\ ~legacy
    /\ TxActiveGuard(i)
    /\ \E ok \in BOOLEAN :
        /\ IF ok
             THEN /\ txState' = [txState EXCEPT ![i] = "PREPARED"]
                  /\ engTx' = "prepared"
             ELSE UNCHANGED <<txState, engTx>>
        /\ Done("prepare", i, <<Call("prepare", ok)>>,
                IF ok THEN "returned" ELSE "threw_engine", "none")
    /\ UNCHANGED <<objVars, isMultiDatabase, attachments, stVars, engStVars, engAttVars,
                   cfgVars, msgVars>>

\* Transaction::Transaction(Transaction&&)
TxMove(i, j) ==
    /\ Running("Transaction", i)
    /\ j = i + 1 /\ j \in Obj /\ life[j] = "unborn"
    /\ life' = [life EXCEPT ![j] = "alive"]
    /\ handle' = [handle EXCEPT ![j] = handle[i],
                                ![i] = IF legacy THEN LegacyMovedFrom(handle[i])
                                                 ELSE FbRefMovedFrom(handle[i])]
    /\ txState' = [txState EXCEPT ![j] = txState[i], ![i] = "ROLLED_BACK"]
    /\ isMultiDatabase' = [isMultiDatabase EXCEPT ![j] = isMultiDatabase[i]]
    /\ movedFrom' = [movedFrom EXCEPT ![i] = TRUE]
    /\ Done("move", i, <<>>, "returned", "none")
    /\ UNCHANGED <<attachments, stVars, engTxVars, engStVars, engAttVars, cfgVars, msgVars>>

\* The assert in ~Transaction fails: the object is valid, PREPARED, and assert()
\* is compiled in.
TxDtorAssertFails(i) == TxIsValid(i) /\ txState[i] = "PREPARED" /\ ~ndebug

\* if (state == TransactionState::ACTIVE) rollback();  inside if (isValid())
TxDtorRollsBack(i) == TxIsValid(i) /\ txState[i] = "ACTIVE"


\* Mutant: the destructor lets the exception of a failed rollback() out.
TxDtorOutcome_mut(ok) == IF ok THEN "returned" ELSE "threw_engine"

\* What leaves the try/catch of ~Transaction when rollback() has thrown.
TxDtorOutcome(ok) == "returned"

\* Transaction::~Transaction
TxDtor(i) ==
    /\ Running("Transaction", i)
    /\ IF TxDtorAssertFails(i)
         THEN /\ aborted' = TRUE
              /\ Done("dtor", i, <<>>, "aborted", "none")
              /\ UNCHANGED <<life, handle, txState, engTx>>
         ELSE /\ aborted' = aborted
              /\ life' = [life EXCEPT ![i] = "destroyed"]
              /\ IF TxDtorRollsBack(i)
                   THEN \E ok \in BOOLEAN :
                          /\ TxRollbackEffect(i, ok)
                          /\ Done("dtor", i, <<Call("rollback", ok)>>, TxDtorOutcome(ok), "none")
                   ELSE /\ UNCHANGED <<handle, txState, engTx>>
                        /\ Done("dtor", i, <<>>, "returned", "none")
    /\ UNCHANGED <<movedFrom, isMultiDatabase, attachments, stVars, engStVars, engAttVars,
                   legacy, ndebug, cls, msgVars>>

NextTx ==
    \/ TxCtor
    \/ \E atts \in AttachmentLists, ok \in BOOLEAN : TxCtorMulti(atts, ok)
    \/ \E i \in Obj : TxCommit(i)
    \/ \E i \in Obj : TxRollback(i)
    \/ \E i \in Obj : TxCommitRetaining(i)
    \/ \E i \in Obj : TxRollbackRetaining(i)
    \/ \E i \in Obj : TxPrepare(i)
    \/ \E i, j \in Obj : TxMove(i, j)
    \/ \E i \in Obj : TxDtor(i)

(***************************************************************************)
(* Statement                                                               *)
(***************************************************************************)

\* Statement::isValid
StIsValid(i) == handle[i] # "null"

\* case StatementType::SELECT: case StatementType::SELECT_FOR_UPDATE:
RowReturning == {"SELECT", "SELECT_FOR_UPDATE"}

\* Statement kinds whose constructor case calls free() and throws.
TransactionKinds == {"START_TRANSACTION", "COMMIT", "ROLLBACK"}

\* Statement kinds of BLOB segment operations.
SegmentKinds == {"GET_SEGMENT", "PUT_SEGMENT"}

\* The engine call that fails during a construction ("none": every call succeeds).
CtorFailPoints == {"none", "allocate", "prepare", "info", "free", "metadata"}

\* The engine call that fails during an execute.
ExecuteFailPoints == {"none", "close", "open", "execute", "fetch"}

\* The engine call that fails during a fetch.
FetchFailPoints == {"none", "fetch"}

\* The engine call that fails during a free.
FreeFailPoints == {"none", "close", "free"}

\* Statement::Statement (modern build): the outcome of the constructor for a
\* statement the engine classifies as kind t.
CtorModern(t, failAt) ==
    IF failAt = "prepare"
      THEN [built |-> FALSE, engStmt |-> "none", outcome |-> "threw_engine",
            calls |-> <<Call("prepare", FALSE)>>]
    ELSE IF t \in TransactionKinds
      THEN \* free(); throw FbCppException(...)
           IF failAt = "free"
             THEN [built |-> FALSE, engStmt |-> "prepared", outcome |-> "threw_engine",
                   calls |-> <<Call("prepare", TRUE), Call("free", FALSE)>>]
             ELSE [built |-> FALSE, engStmt |-> "freed", outcome |-> "threw_usage",
                   calls |-> <<Call("prepare", TRUE), Call("free", TRUE)>>]
    ELSE IF t \in SegmentKinds
      THEN [built |-> FALSE, engStmt |-> "prepared", outcome |-> "threw_usage",
            calls |-> <<Call("prepare", TRUE)>>]
    ELSE IF failAt = "metadata"
      THEN [built |-> FALSE, engStmt |-> "prepared", outcome |-> "threw_engine",
            calls |-> <<Call("prepare", TRUE), Call("metadata", FALSE)>>]
      ELSE [built |-> TRUE, engStmt |-> "prepared", outcome |-> "returned",
            calls |-> <<Call("prepare", TRUE), Call("metadata", TRUE)>>]

\* Statement::Statement (legacy build)
CtorLegacy(t, failAt) ==
    IF failAt = "allocate"
      THEN [built |-> FALSE, engStmt |-> "none", outcome |-> "threw_engine",
            calls |-> <<Call("allocate", FALSE)>>]
    ELSE IF failAt = "prepare"
      THEN \* isc_dsql_free_statement(DSQL_drop); handle = 0; throw
           [built |-> FALSE, engStmt |-> "freed", outcome |-> "threw_engine",
            calls |-> <<Call("allocate", TRUE), Call("prepare", FALSE), Call("free", TRUE)>>]
    ELSE IF failAt = "info"
      THEN \* queryStatementType throws
           [built |-> FALSE, engStmt |-> "prepared", outcome |-> "threw_engine",
            calls |-> <<Call("allocate", TRUE), Call("prepare", TRUE), Call("info", FALSE)>>]
    ELSE IF t \in TransactionKinds
      THEN \* free(); throw Exception(message)
           IF failAt = "free"
             THEN [built |-> FALSE, engStmt |-> "prepared", outcome |-> "threw_engine",
                   calls |-> <<Call("allocate", TRUE), Call("prepare", TRUE),
                               Call("info", TRUE), Call("free", FALSE)>>]
             ELSE [built |-> FALSE, engStmt |-> "freed", outcome |-> "threw_usage",
                   calls |-> <<Call("allocate", TRUE), Call("prepare", TRUE),
                               Call("info", TRUE), Call("free", TRUE)>>]
    ELSE IF failAt = "metadata"
      THEN \* isc_dsql_describe / isc_dsql_describe_bind fails
           [built |-> FALSE, engStmt |-> "prepared", outcome |-> "threw_engine",
            calls |-> <<Call("allocate", TRUE), Call("prepare", TRUE), Call("info", TRUE),
                        Call("metadata", FALSE)>>]
      ELSE [built |-> TRUE, engStmt |-> "prepared", outcome |-> "returned",
            calls |-> <<Call("allocate", TRUE), Call("prepare", TRUE), Call("info", TRUE),
                        Call("metadata", TRUE)>>]

\* Statement::Statement(Attachment&, Transaction&, std::string_view sql, ...)
StCtor(t, cols, failAt) ==
    /\ cls = "Statement" /\ ~aborted /\ life[1] = "unborn"
    /\ LET r == IF legacy THEN CtorLegacy(t, failAt) ELSE CtorModern(t, failAt)
       IN /\ stType' = t
          /\ outCols' = IF r.built THEN cols ELSE 0
          /\ life' = [life EXCEPT ![1] = IF r.built THEN "alive" ELSE "unborn"]
          /\ handle' = [handle EXCEPT ![1] = IF r.built THEN "h" ELSE "null"]
          /\ engStmt' = r.engStmt
          /\ Done("ctor", 1, r.calls, r.outcome, "none")
    /\ UNCHANGED <<movedFrom, txVars, cursor, outRow, engTxVars, engCursors, engRows, engPos,
                   engAttVars, cfgVars, msgVars>>

\* The part of the statement and engine state an execute, fetch or close acts on.
CursorState(i) ==
    [cursor |-> cursor[i], engCursors |-> engCursors, engRows |-> engRows,
     engPos |-> engPos, outRow |-> outRow]

\* resultSetHandle->fetchNext / isc_dsql_fetch on an open cursor: the next row is
\* copied into the output buffer when there is one.
EngineFetch(c) ==
    IF c.engPos < c.engRows
      THEN [c EXCEPT !.engPos = c.engPos + 1, !.outRow = c.engPos + 1]
      ELSE c


\* Mutant: the result of the first fetch is not looked at.
FetchResult_mut(c) == TRUE

\* resultSetHandle->fetchNext(...) == fb::IStatus::RESULT_OK / fetchStatus != 100:
\* the value a fetch on the cursor state c returns.
FetchResult(c) == c.engPos < c.engRows

\* The engine closes the cursor of the statement.
EngineClose(c) ==
    [c EXCEPT !.engCursors = c.engCursors - 1, !.engRows = 0, !.engPos = 0]

\* The engine opens a cursor over a result set of the given number of rows.
EngineOpen(c, rows) ==
    [c EXCEPT !.engCursors = c.engCursors + 1, !.engRows = rows, !.engPos = 0]

Result(c, cs, out, r) == [state |-> c, calls |-> cs, outcome |-> out, ret |-> r]


\* Mutant: the result set handle is reset without closing the cursor.
CloseModern_mut(c) == [c EXCEPT !.cursor = FALSE]

\* if (resultSetHandle) { resultSetHandle->close(&statusWrapper); resultSetHandle.reset(); }
\* The state after the close, given that the close did not throw.
CloseModern(c) ==
    IF c.cursor THEN [EngineClose(c) EXCEPT !.cursor = FALSE] ELSE c

\* Statement::execute (modern build)
ExecuteModern(i, failAt, rows) ==
    LET c0 == CursorState(i)
        closeCalls == IF c0.cursor THEN <<Call("close", failAt # "close")>> ELSE <<>>
        c1 == [CloseModern(c0) EXCEPT !.outRow = 0]
    IN IF c0.cursor /\ failAt = "close"
         THEN Result(c0, closeCalls, "threw_engine", "none")
       ELSE IF stType \in RowReturning
         THEN IF failAt = "open"
                THEN Result(c1, closeCalls \o <<Call("openCursor", FALSE)>>,
                            "threw_engine", "none")
                ELSE LET c2 == [EngineOpen(c1, rows) EXCEPT !.cursor = TRUE]
                     IN IF failAt = "fetch"
                          THEN Result(c2, closeCalls \o <<Call("openCursor", TRUE),
                                                          Call("fetchNext", FALSE)>>,
                                      "threw_engine", "none")
                          ELSE Result(EngineFetch(c2),
                                      closeCalls \o <<Call("openCursor", TRUE),
                                                      Call("fetchNext", TRUE)>>,
                                      "returned", FetchResult(c2))
         ELSE IF failAt = "execute"
                THEN Result(c1, closeCalls \o <<Call("execute", FALSE)>>,
                            "threw_engine", "none")
                ELSE Result([c1 EXCEPT !.outRow = IF outCols > 0 THEN 1 ELSE 0],
                            closeCalls \o <<Call("execute", TRUE)>>, "returned", TRUE)


\* Mutant: the flag is cleared only when the engine closed the cursor.
CloseLegacy_mut(c, ok) ==
    IF c.cursor /\ ok THEN [EngineClose(c) EXCEPT !.cursor = FALSE] ELSE c

\* Statement::closeCursor (legacy build): errors of the close are ignored and the
\* flag is cleared whatever the engine answered.
CloseLegacy(c, ok) ==
    IF c.cursor
      THEN [(IF ok THEN EngineClose(c) ELSE c) EXCEPT !.cursor = FALSE]
      ELSE c

\* Statement::execute (legacy build).  A statement handle of the ISC API has one
\* cursor: the engine refuses isc_dsql_execute while that cursor is open.
ExecuteLegacy(i, failAt, rows) ==
    LET c0 == CursorState(i)
        closeCalls == IF c0.cursor THEN <<Call("close", failAt # "close")>> ELSE <<>>
        c1 == CloseLegacy(c0, failAt # "close")
        execOk == failAt # "execute" /\ c1.engCursors = 0
    IN IF stType \in RowReturning
         THEN IF ~execOk
                THEN Result(c1, closeCalls \o <<Call("execute", FALSE)>>,
                            "threw_engine", "none")
                ELSE LET c2 == [EngineOpen(c1, rows) EXCEPT !.cursor = TRUE]
                     IN IF failAt = "fetch"
                          THEN Result(c2, closeCalls \o <<Call("execute", TRUE),
                                                          Call("fetchNext", FALSE)>>,
                                      "threw_engine", "none")
                          ELSE Result(EngineFetch(c2),
                                      closeCalls \o <<Call("execute", TRUE),
                                                      Call("fetchNext", TRUE)>>,
                                      "returned", FetchResult(c2))
       ELSE IF ~execOk
         THEN Result(c1, closeCalls \o <<Call("execute", FALSE)>>, "threw_engine", "none")
       ELSE IF stType = "EXEC_PROCEDURE"
         THEN Result([c1 EXCEPT !.outRow = IF outCols > 0 THEN 1 ELSE c1.outRow],
                     closeCalls \o <<Call("execute", TRUE)>>, "returned", outCols > 0)
         ELSE Result(c1, closeCalls \o <<Call("execute", TRUE)>>, "returned", FALSE)

\* Writes the result of an execute, fetch or close back to object i.
Apply(nm, i, r) ==
    /\ cursor' = [cursor EXCEPT ![i] = r.state.cursor]
    /\ engCursors' = r.state.engCursors
    /\ engRows' = r.state.engRows
    /\ engPos' = r.state.engPos
    /\ outRow' = r.state.outRow
    /\ Done(nm, i, r.calls, r.outcome, r.ret)

\* Statement::execute
StExecute(i, failAt, rows) ==
    /\ Running("Statement", i)
    /\ StIsValid(i)
    /\ Apply("execute", i, IF legacy THEN ExecuteLegacy(i, failAt, rows)
                                     ELSE ExecuteModern(i, failAt, rows))
    /\ UNCHANGED <<objVars, txVars, stType, outCols, engTxVars, engStmt, engAttVars, cfgVars, msgVars>>

\* Statement::fetchNext
FetchNext(i, failAt) ==
    LET c0 == CursorState(i)
    IN IF ~c0.cursor
         THEN Result(c0, <<>>, "returned", FALSE)
       ELSE IF failAt = "fetch"
         THEN Result(c0, <<Call("fetchNext", FALSE)>>, "threw_engine", "none")
         ELSE Result(EngineFetch(c0), <<Call("fetchNext", TRUE)>>, "returned",
                     FetchResult(c0))

\* Statement::fetchNext
StFetchNext(i, failAt) ==
    /\ Running("Statement", i)
    /\ StIsValid(i)
    /\ Apply("fetchNext", i, FetchNext(i, failAt))
    /\ UNCHANGED <<objVars, txVars, stType, outCols, engTxVars, engStmt, engAttVars, cfgVars, msgVars>>

\* The five positioned fetches of the modern build.
ScrollFetches == {"fetchPrior", "fetchFirst", "fetchLast", "fetchAbsolute", "fetchRelative"}

\* The row a positioned fetch asks the engine for: fetchPrior and fetchRelative
\* count from the current position, fetchAbsolute(position) and
\* fetchRelative(offset) take their argument.
ScrollTarget(c, fn, arg) ==
    CASE fn = "fetchPrior" -> c.engPos - 1
      [] fn = "fetchFirst" -> 1
      [] fn = "fetchLast" -> c.engRows
      [] fn = "fetchAbsolute" -> arg
      [] fn = "fetchRelative" -> c.engPos + arg

\* The engine positions the cursor on row t and copies it into the output buffer
\* when the result set has such a row; the cursor stops at an end otherwise.
EngineScroll(c, t) ==
    IF t >= 1 /\ t <= c.engRows
      THEN [c EXCEPT !.engPos = t, !.outRow = t]
      ELSE [c EXCEPT !.engPos = IF t < 1 THEN 0 ELSE c.engRows]


\* Mutant: the fetch reaches the engine without looking at the result set handle.
FetchScroll_mut(i, fn, arg, failAt) ==
    LET c0 == CursorState(i)
        t == ScrollTarget(c0, fn, arg)
    IN IF failAt = "fetch"
         THEN Result(c0, <<Call(fn, FALSE)>>, "threw_engine", "none")
         ELSE Result(EngineScroll(c0, t), <<Call(fn, TRUE)>>, "returned",
                     t >= 1 /\ t <= c0.engRows)

\* Statement::fetchPrior / fetchFirst / fetchLast / fetchAbsolute / fetchRelative:
\* return resultSetHandle && resultSetHandle->fetchX(...) == fb::IStatus::RESULT_OK;
FetchScroll(i, fn, arg, failAt) ==
    LET c0 == CursorState(i)
        t == ScrollTarget(c0, fn, arg)
    IN IF ~c0.cursor
         THEN Result(c0, <<>>, "returned", FALSE)
       ELSE IF failAt = "fetch"
         THEN Result(c0, <<Call(fn, FALSE)>>, "threw_engine", "none")
         ELSE Result(EngineScroll(c0, t), <<Call(fn, TRUE)>>, "returned",
                     t >= 1 /\ t <= c0.engRows)

\* Statement::fetchPrior / fetchFirst / fetchLast / fetchAbsolute / fetchRelative
\* (modern build only; the legacy build declares fetchNext alone)
StFetchScroll(i, fn, arg, failAt) ==
    /\ Running("Statement", i)
    /\ ~legacy
    /\ StIsValid(i)
    /\ (fn \notin {"fetchAbsolute", "fetchRelative"} \/ failAt = "fetch") => arg = 0
    /\ Apply(fn, i, FetchScroll(i, fn, arg, failAt))
    /\ UNCHANGED <<objVars, txVars, stType, outCols, engTxVars, engStmt, engAttVars, cfgVars, msgVars>>

\* Statement::closeCursor (legacy build, public)
StCloseCursor(i, ok) ==
    /\ Running("Statement", i)
    /\ legacy
    /\ LET c0 == CursorState(i)
       IN Apply("closeCursor", i,
                Result(CloseLegacy(c0, ok),
                       IF c0.cursor THEN <<Call("close", ok)>> ELSE <<>>, "returned", "none"))
    /\ UNCHANGED <<objVars, txVars, stType, outCols, engTxVars, engStmt, engAttVars, cfgVars, msgVars>>

\* Statement::free (modern build): [state, handle, engStmt, calls, outcome]
FreeModern(i, failAt) ==
    LET c0 == CursorState(i)
        closeCalls == IF c0.cursor THEN <<Call("close", failAt # "close")>> ELSE <<>>
        c1 == CloseModern(c0)
    IN IF c0.cursor /\ failAt = "close"
         THEN [state |-> c0, handle |-> handle[i], engStmt |-> engStmt,
               calls |-> closeCalls, outcome |-> "threw_engine", ret |-> "none"]
       ELSE IF failAt = "free"
         THEN [state |-> c1, handle |-> handle[i], engStmt |-> engStmt,
               calls |-> closeCalls \o <<Call("free", FALSE)>>,
               outcome |-> "threw_engine", ret |-> "none"]
         ELSE [state |-> c1, handle |-> "null", engStmt |-> "freed",
               calls |-> closeCalls \o <<Call("free", TRUE)>>,
               outcome |-> "returned", ret |-> "none"]

\* Statement::free (legacy build): returns at once on an invalid statement; the
\* handle is zeroed before the status of DSQL_drop is examined.  A successful drop
\* releases the statement together with its cursor.
FreeLegacy(i, failAt) ==
    LET c0 == CursorState(i)
        closeCalls == IF c0.cursor THEN <<Call("close", failAt # "close")>> ELSE <<>>
        c1 == CloseLegacy(c0, failAt # "close")
    IN IF ~StIsValid(i)
         THEN [state |-> c0, handle |-> handle[i], engStmt |-> engStmt,
               calls |-> <<>>, outcome |-> "returned", ret |-> "none"]
       ELSE IF failAt = "free"
         THEN [state |-> c1, handle |-> "null", engStmt |-> engStmt,
               calls |-> closeCalls \o <<Call("free", FALSE)>>,
               outcome |-> "threw_engine", ret |-> "none"]
         ELSE [state |-> [c1 EXCEPT !.engCursors = 0, !.engRows = 0, !.engPos = 0],
               handle |-> "null", engStmt |-> "freed",
               calls |-> closeCalls \o <<Call("free", TRUE)>>,
               outcome |-> "returned", ret |-> "none"]

\* The precondition of Statement::free: assert(isValid()) in the modern build,
\* none in the legacy build.
StFreeGuard(i) == legacy \/ StIsValid(i)

\* Statement::free
StFree(i, failAt) ==
    /\ Running("Statement", i)
    /\ StFreeGuard(i)
    /\ LET r == IF legacy THEN FreeLegacy(i, failAt) ELSE FreeModern(i, failAt)
       IN /\ Apply("free", i, r)
          /\ handle' = [handle EXCEPT ![i] = r.handle]
          /\ engStmt' = r.engStmt
    /\ UNCHANGED <<life, movedFrom, txVars, stType, outCols, engTxVars, engAttVars, cfgVars, msgVars>>

\* Statement::~Statement: if (isValid()) { try { free(); } catch (...) { } }
StDtor(i, failAt) ==
    /\ Running("Statement", i)
    /\ life' = [life EXCEPT ![i] = "destroyed"]
    /\ IF StIsValid(i)
         THEN LET r == IF legacy THEN FreeLegacy(i, failAt) ELSE FreeModern(i, failAt)
              IN /\ Apply("dtor", i, [r EXCEPT !.outcome = "returned"])
                 /\ handle' = [handle EXCEPT ![i] = r.handle]
                 /\ engStmt' = r.engStmt
         ELSE /\ Done("dtor", i, <<>>, "returned", "none")
              /\ UNCHANGED <<handle, cursor, engCursors, engRows, engPos, outRow, engStmt>>
    /\ UNCHANGED <<movedFrom, txVars, stType, outCols, engTxVars, engAttVars, cfgVars, msgVars>>

\* Statement::Statement(Statement&&)
StMove(i, j) ==
    /\ Running("Statement", i)
    /\ j = i + 1 /\ j \in Obj /\ life[j] = "unborn"
    /\ life' = [life EXCEPT ![j] = "alive"]
    /\ handle' = [handle EXCEPT ![j] = handle[i],
                                ![i] = IF legacy THEN LegacyMovedFrom(handle[i])
                                                 ELSE FbRefMovedFrom(handle[i])]
    /\ cursor' = [cursor EXCEPT ![j] = cursor[i],
                                ![i] = IF legacy
                                         THEN LegacyCursorMovedFrom(cursor[i])
                                         ELSE cursor[i] /\ FbRefMovedFrom("h") # "null"]
    /\ movedFrom' = [movedFrom EXCEPT ![i] = TRUE]
    /\ Done("move", i, <<>>, "returned", "none")
    /\ UNCHANGED <<txVars, stType, outCols, outRow, engTxVars, engStVars, engAttVars, cfgVars, msgVars>>

NextSt ==
    \/ \E t \in StatementType, cols \in 0..MaxCols, failAt \in CtorFailPoints :
          StCtor(t, cols, failAt)
    \/ \E i \in Obj, failAt \in ExecuteFailPoints, rows \in 0..MaxRows :
          StExecute(i, failAt, rows)
    \/ \E i \in Obj, failAt \in FetchFailPoints : StFetchNext(i, failAt)
    \/ \E i \in Obj, fn \in ScrollFetches, arg \in -1..MaxRows, failAt \in FetchFailPoints :
          StFetchScroll(i, fn, arg, failAt)
    \/ \E i \in Obj, ok \in BOOLEAN : StCloseCursor(i, ok)
    \/ \E i \in Obj, failAt \in FreeFailPoints : StFree(i, failAt)
    \/ \E i \in Obj, failAt \in FreeFailPoints : StDtor(i, failAt)
    \/ \E i, j \in Obj : StMove(i, j)

(***************************************************************************)
(* Attachment                                                              *)
(***************************************************************************)

\* Attachment::isValid
AttIsValid(i) == handle[i] # "null"

\* Attachment::Attachment(Client&, const std::string& uri, const AttachmentOptions&)
AttCtor(ok) ==
    /\ cls = "Attachment" /\ ~aborted /\ life[1] = "unborn"
    /\ IF ok
         THEN /\ life' = [life EXCEPT ![1] = "alive"]
              /\ handle' = [handle EXCEPT ![1] = "h"]
              /\ engAtt' = "attached"
         ELSE UNCHANGED <<life, handle, engAtt>>
    /\ Done("ctor", 1, <<Call("attach", ok)>>, IF ok THEN "returned" ELSE "threw_engine", "none")
    /\ UNCHANGED <<movedFrom, txVars, stVars, engTxVars, engStVars, cfgVars, msgVars>>

\* Attachment::disconnectOrDrop: the modern build throws out of the engine call and
\* keeps the handle, the legacy build zeroes the handle before it examines the status.
DisconnectOrDrop(i, drop, ok) ==
    /\ handle' = [handle EXCEPT ![i] = IF ok \/ legacy THEN "null" ELSE handle[i]]
    /\ engAtt' = IF ok THEN (IF drop THEN "dropped" ELSE "detached") ELSE engAtt

\* Attachment::disconnect / Attachment::dropDatabase
AttDisconnectOrDrop(i, drop, ok) ==
    /\ Running("Attachment", i)
    /\ AttIsValid(i)
    /\ DisconnectOrDrop(i, drop, ok)
    /\ Done(IF drop THEN "dropDatabase" ELSE "disconnect", i,
            <<Call(IF drop THEN "drop" ELSE "detach", ok)>>,
            IF ok THEN "returned" ELSE "threw_engine", "none")
    /\ UNCHANGED <<life, movedFrom, txVars, stVars, engTxVars, engStVars, cfgVars, msgVars>>

\* Attachment::~Attachment: if (isValid()) { try { disconnectOrDrop(false); } catch (...) { } }
AttDtor(i, ok) ==
    /\ Running("Attachment", i)
    /\ life' = [life EXCEPT ![i] = "destroyed"]
    /\ IF AttIsValid(i)
         THEN /\ DisconnectOrDrop(i, FALSE, ok)
              /\ Done("dtor", i, <<Call("detach", ok)>>, "returned", "none")
         ELSE /\ UNCHANGED <<handle, engAtt>>
              /\ Done("dtor", i, <<>>, "returned", "none")
    /\ UNCHANGED <<movedFrom, txVars, stVars, engTxVars, engStVars, cfgVars, msgVars>>

\* Attachment::Attachment(Attachment&&)
AttMove(i, j) ==
    /\ Running("Attachment", i)
    /\ j = i + 1 /\ j \in Obj /\ life[j] = "unborn"
    /\ life' = [life EXCEPT ![j] = "alive"]
    /\ handle' = [handle EXCEPT ![j] = handle[i],
                                ![i] = IF legacy THEN LegacyMovedFrom(handle[i])
                                                 ELSE FbRefMovedFrom(handle[i])]
    /\ movedFrom' = [movedFrom EXCEPT ![i] = TRUE]
    /\ Done("move", i, <<>>, "returned", "none")
    /\ UNCHANGED <<txVars, stVars, engTxVars, engStVars, engAttVars, cfgVars, msgVars>>

NextAtt ==
    \/ \E ok \in BOOLEAN : AttCtor(ok)
    \/ \E i \in Obj, drop \in BOOLEAN, ok \in BOOLEAN : AttDisconnectOrDrop(i, drop, ok)
    \/ \E i \in Obj, ok \in BOOLEAN : AttDtor(i, ok)
    \/ \E i, j \in Obj : AttMove(i, j)

Next == NextTx \/ NextSt \/ NextAtt


(***************************************************************************)
(* Row buffers: null flags and indexed accessors of a prepared statement   *)
(*                                                                         *)
(* The statement returns each of its parameters as the column of the same  *)
(* index (select cast(? as T), ... from rdb$database), so a row that comes *)
(* back carries the null flags that were sent.  Values are abstracted to   *)
(* whether a requested conversion fits; the null flags, the type dispatch  *)
(* and the bounds checks are modelled as written.  An access outside a     *)
(* buffer that the code does not check is undefined behaviour: the process *)
(* either crashes or goes on with whatever the stray access produced.      *)
(***************************************************************************)

\* Bound of the model: the largest number of parameters and of columns.
MaxFields == 1

\* enum class DescriptorAdjustedType, without NULL
AdjustedTypes ==
    {"BOOLEAN", "INT16", "INT32", "INT64", "INT128", "FLOAT", "DOUBLE", "DECFLOAT16",
     "DECFLOAT34", "DATE", "TIME", "TIMESTAMP", "TIME_TZ", "TIMESTAMP_TZ", "BLOB", "STRING"}

\* The column types of a Firebird 2.5 engine (SQL_* of the legacy build).
LegacyTypes ==
    {"INT16", "INT32", "INT64", "FLOAT", "DOUBLE", "DATE", "TIME", "TIMESTAMP", "BLOB", "STRING"}

\* Adjusted types that carry a scale.
ScaledTypes == {"INT16", "INT32", "INT64", "INT128"}

\* Scales of the fixed-point columns of the model (numeric(p, 0) and numeric(p, 2)).
Scales == {0, -2}

\* Descriptor: the adjusted type and the scale of one field.
Descriptor(t, s) == [adjustedType |-> t, scale |-> s]

\* getInDescriptor / getOutDescriptor: index >= descriptors.size() throws std::out_of_range.
InRange(descriptors, index) == index >= 0 /\ index < Len(descriptors)

\* Source types convertNumber reads: INT128 and the DECFLOATs only with Boost.Multiprecision.
NumberSources(b) ==
    {"INT16", "INT32", "INT64", "FLOAT", "DOUBLE"}
        \cup (IF b THEN {"INT128", "DECFLOAT16", "DECFLOAT34"} ELSE {})

\* convertNumber without a target scale (the Scaled getters) rejects the floating sources.
ScaledSources(b) == NumberSources(b) \ {"DECFLOAT16", "DECFLOAT34", "FLOAT", "DOUBLE"}

\* Getters that convert numbers to a plain numeric type.
NumberGetters(b) ==
    {"getInt16", "getInt32", "getInt64", "getFloat", "getDouble"}
        \cup (IF b THEN {"getBoostInt128", "getBoostDecFloat16", "getBoostDecFloat34"} ELSE {})

\* Getters that convert numbers to a scaled integer keeping the column's scale.
ScaledGetters(b) ==
    {"getScaledInt16", "getScaledInt32", "getScaledInt64"}
        \cup (IF b THEN {"getScaledBoostInt128"} ELSE {})

\* Getters whose switch has a single case: the adjusted type they read.
ExactGetters ==
    [getBool |-> "BOOLEAN", getScaledOpaqueInt128 |-> "INT128",
     getOpaqueDecFloat16 |-> "DECFLOAT16", getOpaqueDecFloat34 |-> "DECFLOAT34",
     getDate |-> "DATE", getOpaqueDate |-> "DATE", getTime |-> "TIME",
     getOpaqueTime |-> "TIME", getTimestamp |-> "TIMESTAMP",
     getOpaqueTimestamp |-> "TIMESTAMP", getTimeTz |-> "TIME_TZ",
     getOpaqueTimeTz |-> "TIME_TZ", getTimestampTz |-> "TIMESTAMP_TZ",
     getOpaqueTimestampTz |-> "TIMESTAMP_TZ", getBlobId |-> "BLOB"]

\* The typed getters of the modern build.
ModernGetters(b) ==
    NumberGetters(b) \cup ScaledGetters(b) \cup DOMAIN ExactGetters \cup {"getString"}

\* The adjusted types the switch of getter g has a case for.
GetterAccepts(g, b) ==
    IF g \in NumberGetters(b) THEN NumberSources(b)
    ELSE IF g \in ScaledGetters(b) THEN ScaledSources(b)
    ELSE IF g = "getString" THEN AdjustedTypes \ {"BLOB"}
    ELSE {ExactGetters[g]}

\* Getters whose result depends on the stored value fitting the requested type.
ConvertingGetters(b) == NumberGetters(b) \cup ScaledGetters(b)

\* The result of an accessor call: the null flags after it, the buffer slots it read or
\* wrote, how it ended and what it returned.
Access(inN, outN, slots, out, r) ==
    [inNull |-> inN, outNull |-> outN, touched |-> slots, outcome |-> out, ret |-> r]

\* An unchecked access outside the buffers: the process crashes or goes on.
StrayAccess(side, index, rets) ==
    {Access(inNull, outNull, {<<side, index>>}, "crashed", "none")}
        \cup {Access(inNull, outNull, {<<side, index>>}, "returned", r) : r \in rets}

\* Statement::isNull (modern build)
IsNullModern(index) ==
    IF ~InRange(outDescriptors, index)
      THEN {Access(inNull, outNull, {}, "threw_out_of_range", "none")}
      ELSE {Access(inNull, outNull, {<<"out", index>>}, "returned", outNull[index + 1])}

\* Statement::isNull(short) (legacy build): outSqlda_.isNull(index)
IsNullLegacy(index) ==
    IF ~InRange(outDescriptors, index)
      THEN StrayAccess("out", index, BOOLEAN)
      ELSE {Access(inNull, outNull, {<<"out", index>>}, "returned", outNull[index + 1])}

\* Statement::getBool ... Statement::getString (modern build): descriptor, null flag,
\* switch on the adjusted type, conversion.
GetModern(g, index, fits) ==
    IF ~InRange(outDescriptors, index)
      THEN {Access(inNull, outNull, {}, "threw_out_of_range", "none")}
    ELSE IF outNull[index + 1]
      THEN {Access(inNull, outNull, {<<"out", index>>}, "returned", "absent")}
    ELSE IF outDescriptors[index + 1].adjustedType \notin GetterAccepts(g, boost)
      THEN {Access(inNull, outNull, {<<"out", index>>}, "threw_invalid_type", "none")}
    ELSE IF g \in ConvertingGetters(boost) /\ ~fits
      THEN {Access(inNull, outNull, {<<"out", index>>}, "threw_conversion", "none")}
    ELSE {Access(inNull, outNull, {<<"out", index>>}, "returned", "value")}

\* The getters of the legacy build that return the stored bytes as a plain value, and the
\* column type whose bytes they expect.
RawGetters ==
    [getShort |-> "INT16", getLong |-> "INT32", getInt64Raw |-> "INT64",
     getFloatRaw |-> "FLOAT", getDoubleRaw |-> "DOUBLE", getStringRaw |-> "STRING",
     getDateRaw |-> "DATE", getTime |-> "TIME", getTimestampRaw |-> "TIMESTAMP"]

\* The optional-returning getters of the legacy build and the raw getter each one calls.
OptionalGetters ==
    [getBool |-> "getShort", getInt16 |-> "getShort", getInt32 |-> "getLong",
     getInt64 |-> "getInt64Raw", getFloat |-> "getFloatRaw", getDouble |-> "getDoubleRaw",
     getString |-> "getStringRaw", getDate |-> "getDateRaw",
     getTimestamp |-> "getTimestampRaw"]

\* The typed getters of the legacy build.
LegacyGetters == DOMAIN RawGetters \cup DOMAIN OptionalGetters

\* *reinterpret_cast<const T*>(var.sqldata): the bytes of the column read as a T.
Reinterpret(raw, index) ==
    IF outDescriptors[index + 1].adjustedType = RawGetters[raw] THEN "value" ELSE "reinterpreted"

\* Statement::getShort(short) ... Statement::getTimestamp(short) and the optional-returning
\* getters over them (legacy build).
GetLegacy(g, index) ==
    IF ~InRange(outDescriptors, index)
      THEN StrayAccess("out", index, {"absent", "reinterpreted"} \ 
                                      (IF g \in DOMAIN RawGetters THEN {"absent"} ELSE {}))
    ELSE IF g \in DOMAIN RawGetters
      THEN {Access(inNull, outNull, {<<"out", index>>}, "returned", Reinterpret(g, index))}
    ELSE IF outNull[index + 1]
      THEN {Access(inNull, outNull, {<<"out", index>>}, "returned", "absent")}
    ELSE {Access(inNull, outNull, {<<"out", index>>}, "returned",
                 Reinterpret(OptionalGetters[g], index))}

\* Statement::setNull (modern build)
SetNullModern(index) ==
    IF ~InRange(inDescriptors, index)
      THEN {Access(inNull, outNull, {}, "threw_out_of_range", "none")}
      ELSE {Access([inNull EXCEPT ![index + 1] = TRUE], outNull, {<<"in", index>>},
                   "returned", "none")}

\* Statement::setNull(short) (legacy build): inSqlda_.setNull(index, true)
SetNullLegacy(index) ==
    IF ~InRange(inDescriptors, index)
      THEN StrayAccess("in", index, {"none"})
      ELSE {Access([inNull EXCEPT ![index + 1] = TRUE], outNull, {<<"in", index>>},
                   "returned", "none")}

\* Setters that go through setNumber.
NumberSetters(b) ==
    {"setInt16", "setScaledInt16", "setInt32", "setScaledInt32", "setInt64", "setScaledInt64",
     "setFloat", "setDouble"}
        \cup (IF b THEN {"setBoostInt128", "setScaledBoostInt128", "setBoostDecFloat16",
                         "setBoostDecFloat34"}
                   ELSE {})

\* Setters whose switch has a single case: the adjusted type they write.
ExactSetters ==
    [setBool |-> "BOOLEAN", setOpaqueInt128 |-> "INT128",
     setOpaqueDecFloat16 |-> "DECFLOAT16", setOpaqueDecFloat34 |-> "DECFLOAT34",
     setDate |-> "DATE", setOpaqueDate |-> "DATE", setTime |-> "TIME",
     setOpaqueTime |-> "TIME", setTimestamp |-> "TIMESTAMP",
     setOpaqueTimestamp |-> "TIMESTAMP", setTimeTz |-> "TIME_TZ",
     setOpaqueTimeTz |-> "TIME_TZ", setTimestampTz |-> "TIMESTAMP_TZ",
     setOpaqueTimestampTz |-> "TIMESTAMP_TZ", setBlobId |-> "BLOB"]

\* The typed setters of the modern build.
ModernSetters(b) == NumberSetters(b) \cup DOMAIN ExactSetters \cup {"setString"}

\* The adjusted types the switch of setter s has a case for.
SetterAccepts(s, b) ==
    IF s \in NumberSetters(b) THEN NumberSources(b)
    ELSE IF s = "setString"
      THEN (AdjustedTypes \ {"BLOB", "DECFLOAT16", "DECFLOAT34"})
               \cup (IF b THEN {"DECFLOAT16", "DECFLOAT34"} ELSE {})
    ELSE {ExactSetters[s]}

\* Setters whose value may not fit the parameter.
ConvertingSetters(b) == NumberSetters(b) \cup {"setString"}

\* Statement::setBool ... Statement::setString (modern build): an empty optional is
\* setNull; otherwise descriptor, switch on the adjusted type, conversion, null flag.
SetModern(s, index, v) ==
    IF v = "nullopt" THEN SetNullModern(index)
    ELSE IF ~InRange(inDescriptors, index)
      THEN {Access(inNull, outNull, {}, "threw_out_of_range", "none")}
    ELSE IF inDescriptors[index + 1].adjustedType \notin SetterAccepts(s, boost)
      THEN {Access(inNull, outNull, {}, "threw_invalid_type", "none")}
    ELSE IF s \in ConvertingSetters(boost) /\ v = "overflow"
      THEN {Access(inNull, outNull, {}, "threw_conversion", "none")}
    ELSE {Access([inNull EXCEPT ![index + 1] = FALSE], outNull, {<<"in", index>>},
                 "returned", "none")}

\* The typed setters of the legacy build.
LegacySetters ==
    {"setShort", "setLong", "setInt64", "setFloat", "setDouble", "setString", "setDate",
     "setTime", "setTimestamp", "setInt16", "setInt32"}

\* Statement::setShort(short, short) ... (legacy build): the value is written through
\* var(index).sqldata, then inSqlda_.setNull(index, false).
SetLegacy(s, index) ==
    IF ~InRange(inDescriptors, index)
      THEN StrayAccess("in", index, {"none"})
      ELSE {Access([inNull EXCEPT ![index + 1] = FALSE], outNull, {<<"in", index>>},
                   "returned", "none")}

\* The null flags of a message right after the constructor: processMetadata sets every
\* flag to FB_TRUE; XSqlDa::allocateBuffers resizes nullIndicators_, which leaves 0.
PreparedNull(n) == [k \in 1..n |-> ~legacy]

\* Statement::execute on the row buffers: the modern build sets every output null flag
\* before the engine call; the engine then returns the parameters it was sent.
ExecuteRow(failAt) ==
    IF failAt = "execute"
      THEN Access(inNull, IF legacy THEN outNull ELSE [k \in DOMAIN outNull |-> TRUE], {},
                  "threw_engine", "none")
      ELSE Access(inNull, inNull, {}, "returned", TRUE)

\* The update of the row variables by an accessor call.
ApplyAccess(nm, g, index, r) ==
    /\ inNull' = r.inNull
    /\ outNull' = r.outNull
    /\ touched' = r.touched
    /\ args' = [args EXCEPT !.index = index, !.type = g]
    /\ aborted' = (r.outcome = "crashed")
    /\ Done(nm, 1, <<>>, r.outcome, r.ret)

\* What an accessor call leaves alone.
RowFrame ==
    UNCHANGED <<objVars, txVars, stVars, engTxVars, engStVars, engAttVars, legacy, ndebug, cls,
                boost, inDescriptors, outDescriptors, inMessage, outMessage>>

\* Indexes an accessor is called with: unsigned in the modern build, short in the legacy one.
Indexes == IF legacy THEN -1..MaxFields ELSE 0..MaxFields

\* Statement::setNull
RowSetNull(index) ==
    /\ Running("Statement", 1)
    /\ \E r \in (IF legacy THEN SetNullLegacy(index) ELSE SetNullModern(index)) :
           ApplyAccess("setNull", "none", index, r)
    /\ RowFrame

\* Statement::setBool, setInt16, ..., setString
RowSet(s, index, v) ==
    /\ Running("Statement", 1)
    /\ s \in (IF legacy THEN LegacySetters ELSE ModernSetters(boost))
    /\ legacy => v = "fits"
    /\ v = "overflow" => s \in ConvertingSetters(boost)
    /\ \E r \in (IF legacy THEN SetLegacy(s, index) ELSE SetModern(s, index, v)) :
           ApplyAccess("set", s, index, r)
    /\ RowFrame

\* Statement::execute
RowExecute(failAt) ==
    /\ Running("Statement", 1)
    /\ ApplyAccess("execute", "none", 0, ExecuteRow(failAt))
    /\ RowFrame

\* Statement::isNull
RowIsNull(index) ==
    /\ Running("Statement", 1)
    /\ \E r \in (IF legacy THEN IsNullLegacy(index) ELSE IsNullModern(index)) :
           ApplyAccess("isNull", "none", index, r)
    /\ RowFrame

\* Statement::getBool, getInt16, ..., getString
RowGet(g, index, fits) ==
    /\ Running("Statement", 1)
    /\ g \in (IF legacy THEN LegacyGetters ELSE ModernGetters(boost))
    /\ legacy => fits
    /\ ~fits => g \in ConvertingGetters(boost)
    /\ \E r \in (IF legacy THEN GetLegacy(g, index) ELSE GetModern(g, index, fits)) :
           ApplyAccess("get", g, index, r)
    /\ RowFrame

\* A statement constructed over one object, with the given parameters, which it returns
\* as its columns; the messages are zero-filled.
PreparedWith(descriptors, message) ==
    /\ cls = "Statement"
    /\ ndebug = FALSE
    /\ life = [i \in Obj |-> IF i = 1 THEN "alive" ELSE "unborn"]
    /\ handle = [i \in Obj |-> IF i = 1 THEN "h" ELSE "null"]
    /\ movedFrom = [i \in Obj |-> FALSE]
    /\ txState = [i \in Obj |-> "ACTIVE"]
    /\ isMultiDatabase = [i \in Obj |-> FALSE]
    /\ attachments = <<>>
    /\ cursor = [i \in Obj |-> FALSE]
    /\ stType = "SELECT"
    /\ outCols = Len(descriptors)
    /\ outRow = 0
    /\ engTx = "none"
    /\ engStmt = "prepared"
    /\ engCursors = 0
    /\ engRows = 0
    /\ engPos = 0
    /\ engAtt = "none"
    /\ op = [name |-> "none", obj |-> 0]
    /\ calls = <<>>
    /\ outcome = "none"
    /\ ret = "none"
    /\ aborted = FALSE
    /\ inDescriptors = descriptors
    /\ outDescriptors = descriptors
    /\ inNull = PreparedNull(Len(descriptors))
    /\ outNull = PreparedNull(Len(descriptors))
    /\ args = NoArg
    /\ touched = {}
    /\ inMessage = message
    /\ outMessage = message

\* A statement with n parameters of type t and scale s.  The accessors of this section do
\* not look at the scale.
Prepared(t, s, n) ==
    PreparedWith([k \in 1..n |-> Descriptor(t, s)], [k \in 1..n |-> 0])

\* The builds and the statements of the model.
Builds ==
    /\ legacy \in BOOLEAN
    /\ boost \in (IF legacy THEN {FALSE} ELSE BOOLEAN)

InitRow ==
    /\ Builds
    /\ \E t \in (IF legacy THEN LegacyTypes ELSE AdjustedTypes), n \in 0..MaxFields :
         Prepared(t, 0, n)

NextRow ==
    \/ \E index \in Indexes : RowSetNull(index)
    \/ \E s \in ModernSetters(TRUE) \cup LegacySetters, index \in Indexes,
            v \in {"nullopt", "fits", "overflow"} :
           RowSet(s, index, v)
    \/ \E failAt \in {"none", "execute"} : RowExecute(failAt)
    \/ \E index \in Indexes : RowIsNull(index)
    \/ \E g \in ModernGetters(TRUE) \cup LegacyGetters, index \in Indexes, fits \in BOOLEAN :
           RowGet(g, index, fits)

(***************************************************************************)
(* Variant reading: get<std::variant<...>>(index), modern build            *)
(*                                                                         *)
(* An alternative of a variant is named by the typed getter that reads it  *)
(* (getInt32 for std::int32_t, getOpaqueDate for OpaqueDate, ...);         *)
(* "monostate" is std::monostate.  The variant type is part of the program *)
(* text, so a run reads with one variant type: args.alts.                  *)
(***************************************************************************)

\* Bound of the model: the largest number of alternatives of a variant.
MaxAlts == 2

\* isOpaqueTypeV<Alt>: the alternatives that only match their exact SQL type.
IsOpaqueType(a) ==
    a \in {"getScaledOpaqueInt128", "getOpaqueDecFloat16", "getOpaqueDecFloat34",
           "getOpaqueDate", "getOpaqueTime", "getOpaqueTimestamp", "getOpaqueTimeTz",
           "getOpaqueTimestampTz"}

\* variantContainsV<T, V>
VariantContains(a, alts) == \E k \in DOMAIN alts : alts[k] = a

\* The first element of the sequence prefs the variant contains, "none" without one.
FirstContained(prefs, alts) ==
    IF \E k \in DOMAIN prefs : VariantContains(prefs[k], alts)
      THEN prefs[CHOOSE k \in DOMAIN prefs :
                    /\ VariantContains(prefs[k], alts)
                    /\ \A j \in 1..(k - 1) : ~VariantContains(prefs[j], alts)]
      ELSE "none"

\* getVariantValue, switch (descriptor.adjustedType): the alternatives each case tests, in
\* the order it tests them.  The INT128, DECFLOAT16 and DECFLOAT34 cases and the
\* ScaledBoostInt128 tests are compiled only with Boost.Multiprecision.
ExactAlternatives(d, b) ==
    LET scaled == d.scale # 0
        boost128 == IF b THEN <<"getScaledBoostInt128">> ELSE <<>>
        t == d.adjustedType
    IN CASE t = "BOOLEAN" -> <<"getBool">>
         [] t = "INT16" ->
              (IF scaled THEN <<"getScaledInt16", "getScaledInt32", "getScaledInt64">> \o boost128
                         ELSE <<>>) \o <<"getInt16">>
         [] t = "INT32" ->
              (IF scaled THEN <<"getScaledInt32", "getScaledInt64">> \o boost128 ELSE <<>>)
                  \o <<"getInt32">>
         [] t = "INT64" ->
              (IF scaled THEN <<"getScaledInt64">> \o boost128 ELSE <<>>) \o <<"getInt64">>
         [] t = "INT128" ->
              IF b THEN <<"getScaledOpaqueInt128">>
                           \o (IF scaled THEN <<"getScaledBoostInt128">> ELSE <<"getBoostInt128">>)
                   ELSE <<>>
         [] t = "FLOAT" -> <<"getFloat">>
         [] t = "DOUBLE" -> <<"getDouble">>
         [] t = "DECFLOAT16" ->
              IF b THEN <<"getOpaqueDecFloat16", "getBoostDecFloat16">> ELSE <<>>
         [] t = "DECFLOAT34" ->
              IF b THEN <<"getOpaqueDecFloat34", "getBoostDecFloat34">> ELSE <<>>
         [] t = "STRING" -> <<"getString">>
         [] t = "DATE" -> <<"getOpaqueDate", "getDate">>
         [] t = "TIME" -> <<"getOpaqueTime", "getTime">>
         [] t = "TIMESTAMP" -> <<"getOpaqueTimestamp", "getTimestamp">>
         [] t = "TIME_TZ" -> <<"getOpaqueTimeTz", "getTimeTz">>
         [] t = "TIMESTAMP_TZ" -> <<"getOpaqueTimestampTz", "getTimestampTz">>
         [] t = "BLOB" -> <<"getBlobId">>

\* tryVariantAlternatives<V, 0>: the first alternative in declaration order that is neither
\* std::monostate nor opaque, "none" when every alternative is skipped.
TryVariantAlternatives(alts) ==
    LET tried(k) == alts[k] # "monostate" /\ ~IsOpaqueType(alts[k])
    IN IF \E k \in DOMAIN alts : tried(k)
         THEN alts[CHOOSE k \in DOMAIN alts : tried(k) /\ \A j \in 1..(k - 1) : ~tried(j)]
         ELSE "none"

\* V{get<std::optional<Alt>>(index).value()}: the variant holds alternative g when the
\* getter returns; an exception of the getter leaves get<V>.
Hold(g, index, fits) ==
    {IF r.outcome = "returned" THEN [r EXCEPT !.ret = g] ELSE r : r \in GetModern(g, index, fits)}

\* getVariantValue: the exact match, else tryVariantAlternatives.  The getters of the
\* exact match read the column's own or a wider type, so their conversion fits.
GetVariantValue(index, alts, fits) ==
    LET exact == FirstContained(ExactAlternatives(outDescriptors[index + 1], boost), alts)
        other == TryVariantAlternatives(alts)
    IN IF exact # "none" THEN Hold(exact, index, TRUE)
       ELSE IF other # "none" THEN Hold(other, index, fits)
       ELSE {Access(inNull, outNull, {<<"out", index>>}, "threw_no_alternative", "none")}

\* Mutant: a null column is handed to getVariantValue.
GetVariant_mut(index, alts, fits) ==
    IF ~InRange(outDescriptors, index)
      THEN {Access(inNull, outNull, {}, "threw_out_of_range", "none")}
      ELSE GetVariantValue(index, alts, fits)

\* Statement::get<VariantLike>(index)
GetVariant(index, alts, fits) ==
    IF ~InRange(outDescriptors, index)
      THEN {Access(inNull, outNull, {}, "threw_out_of_range", "none")}
    ELSE IF outNull[index + 1]
      THEN IF VariantContains("monostate", alts)
             THEN {Access(inNull, outNull, {<<"out", index>>}, "returned", "monostate")}
             ELSE {Access(inNull, outNull, {<<"out", index>>}, "threw_null_variant", "none")}
    ELSE GetVariantValue(index, alts, fits)

\* fetchNext on an open cursor: the engine stores the next row, each column null or not.
RowFetch(nulls) ==
    /\ Running("Statement", 1)
    /\ ~legacy
    /\ nulls \in [DOMAIN outNull -> BOOLEAN]
    /\ outNull' = nulls
    /\ touched' = {}
    /\ args' = [args EXCEPT !.index = 0, !.type = "none"]
    /\ Done("fetchNext", 1, <<Call("fetchNext", TRUE)>>, "returned", TRUE)
    /\ UNCHANGED <<inNull, aborted>>
    /\ RowFrame

\* get<V>(index) with V the variant type of the run.
VariantGet(index, fits) ==
    /\ Running("Statement", 1)
    /\ ~legacy
    /\ \E r \in GetVariant(index, args.alts, fits) :
         /\ outNull' = r.outNull
         /\ touched' = r.touched
         /\ args' = [args EXCEPT !.index = index, !.type = "variant"]
         /\ Done("get<Variant>", 1, <<>>, r.outcome, r.ret)
    /\ UNCHANGED <<inNull, aborted>>
    /\ RowFrame

\* The columns the variant is read from: each case of interest of the switch.
VariantColumns ==
    {Descriptor(t, 0) :
        t \in {"BOOLEAN", "INT16", "INT32", "INT128", "DOUBLE", "DECFLOAT16", "DATE",
               "STRING", "BLOB"}}
        \cup {Descriptor(t, -2) : t \in {"INT16", "INT32", "INT128"}}

\* The alternatives the variant types of the model are made of.
Alternatives(b) ==
    {"monostate", "getBool", "getInt32", "getScaledInt32", "getInt64", "getScaledInt64",
     "getScaledOpaqueInt128", "getOpaqueDecFloat16", "getDouble", "getOpaqueDate", "getDate",
     "getString", "getBlobId"}
        \cup (IF b THEN {"getScaledBoostInt128", "getBoostDecFloat16"} ELSE {})

\* The variant types of at most MaxAlts distinct alternatives.
Variants(b) ==
    {v \in UNION {[1..n -> Alternatives(b)] : n \in 1..MaxAlts} :
        \A j, k \in DOMAIN v : j # k => v[j] # v[k]}

InitVariant ==
    /\ legacy = FALSE
    /\ boost \in BOOLEAN
    /\ \E d \in VariantColumns, v \in Variants(boost) :
         /\ cls = "Statement"
         /\ ndebug = FALSE
         /\ life = [i \in Obj |-> IF i = 1 THEN "alive" ELSE "unborn"]
         /\ handle = [i \in Obj |-> IF i = 1 THEN "h" ELSE "null"]
         /\ movedFrom = [i \in Obj |-> FALSE]
         /\ txState = [i \in Obj |-> "ACTIVE"]
         /\ isMultiDatabase = [i \in Obj |-> FALSE]
         /\ attachments = <<>>
         /\ cursor = [i \in Obj |-> TRUE]
         /\ stType = "SELECT"
         /\ outCols = 1
         /\ outRow = 0
         /\ engTx = "none"
         /\ engStmt = "prepared"
         /\ engCursors = 1
         /\ engRows = 0
         /\ engPos = 0
         /\ engAtt = "none"
         /\ op = [name |-> "none", obj |-> 0]
         /\ calls = <<>>
         /\ outcome = "none"
         /\ ret = "none"
         /\ aborted = FALSE
         /\ inDescriptors = <<>>
         /\ outDescriptors = <<d>>
         /\ inNull = <<>>
         /\ outNull = PreparedNull(1)
         /\ args = [NoArg EXCEPT !.alts = v]
         /\ touched = {}
         /\ inMessage = <<>>
         /\ outMessage = <<0>>

NextVariant ==
    \/ \E nulls \in [1..1 -> BOOLEAN] : RowFetch(nulls)
    \/ \E index \in 0..1, fits \in BOOLEAN : VariantGet(index, fits)

(***************************************************************************)
(* Record and tuple binding: get<T>() / set(value), modern build           *)
(*                                                                         *)
(* A record type is the sequence of the kinds of its fields: "plain" (F),  *)
(* "optional" (std::optional<F>), "variant_mono" (std::variant with        *)
(* std::monostate) and "variant" (std::variant without it).  It is part of *)
(* the program text, so a run binds one record type: args.fields.  Fields  *)
(* and columns are 32-bit integers, so no field fails on its type.         *)
(***************************************************************************)

\* Bound of the model: the largest number of fields of a record and of columns of a row.
MaxRecordFields == 2

FieldKinds == {"plain", "optional", "variant_mono", "variant"}

\* The variant type of a variant field.
FieldVariant(kind) ==
    IF kind = "variant_mono" THEN <<"monostate", "getInt32">> ELSE <<"getInt32">>

\* Mutant: a plain field takes a null column as a value.
GetStructField_mut(kind, index) ==
    IF kind \in {"variant_mono", "variant"}
      THEN GetVariant(index, FieldVariant(kind), TRUE)
      ELSE GetModern("getInt32", index, TRUE)

\* Statement::getStructField<F>(index)
GetStructField(kind, index) ==
    IF kind = "optional" THEN GetModern("getInt32", index, TRUE)
    ELSE IF kind \in {"variant_mono", "variant"}
      THEN GetVariant(index, FieldVariant(kind), TRUE)
    ELSE {IF r.outcome = "returned" /\ r.ret = "absent"
            THEN [r EXCEPT !.outcome = "threw_null_field", !.ret = "none"]
            ELSE r : r \in GetModern("getInt32", index, TRUE)}

\* T{getStructField<FieldType<T, Is>>(Is)...}: the fields are read in order from field k on;
\* the first exception ends the read.  acc holds the slots read and the fields built so far.
RECURSIVE GetStruct(_, _, _)
GetStruct(fields, k, acc) ==
    IF k > Len(fields) THEN acc
    ELSE LET r == CHOOSE x \in GetStructField(fields[k], k - 1) : TRUE
             slots == acc.touched \cup r.touched
         IN IF r.outcome # "returned"
              THEN [acc EXCEPT !.touched = slots, !.outcome = r.outcome, !.ret = "none"]
              ELSE GetStruct(fields, k + 1,
                             [acc EXCEPT !.touched = slots, !.ret = Append(acc.ret, r.ret)])

\* Statement::get<Aggregate>() / get<TupleLike>()
GetRecord(fields) ==
    IF Len(fields) # Len(outDescriptors)
      THEN Access(inNull, outNull, {}, "threw_field_count", "none")
      ELSE GetStruct(fields, 1, Access(inNull, outNull, {}, "returned", <<>>))

\* Mutant: the fields the record shares with the parameters are written.
SetRecord_mut(values) ==
    LET n == IF Len(values) < Len(inDescriptors) THEN Len(values) ELSE Len(inDescriptors)
    IN Access([k \in DOMAIN inNull |-> IF k <= n THEN values[k] = "null" ELSE inNull[k]],
              outNull, {<<"in", k - 1>> : k \in 1..n}, "returned", "none")

\* Statement::set(const Aggregate&) / set(const TupleLike&): setStruct writes every
\* parameter in order; an empty optional and std::monostate are written as null.
SetRecord(values) ==
    IF Len(values) # Len(inDescriptors)
      THEN Access(inNull, outNull, {}, "threw_field_count", "none")
      ELSE Access([k \in DOMAIN inNull |-> values[k] = "null"], outNull,
                  {<<"in", k - 1>> : k \in DOMAIN inNull}, "returned", "none")

\* The values a record of the run's type can hold: plain fields and variants without
\* std::monostate always hold a value.
RecordValues(fields) ==
    {v \in [DOMAIN fields -> {"value", "null"}] :
        \A k \in DOMAIN fields : v[k] = "null" => fields[k] \in {"optional", "variant_mono"}}

\* get<T>() with T the record type of the run, a struct or a tuple.
BindGet(shape) ==
    /\ Running("Statement", 1)
    /\ ~legacy
    /\ ApplyAccess(IF shape = "struct" THEN "get<Aggregate>" ELSE "get<TupleLike>", "record",
                   0, GetRecord(args.fields))
    /\ RowFrame

\* set(value) with value of the record type of the run, a struct or a tuple.
BindSet(shape, values) ==
    /\ Running("Statement", 1)
    /\ ~legacy
    /\ values \in RecordValues(args.fields)
    /\ ApplyAccess(IF shape = "struct" THEN "set(Aggregate)" ELSE "set(TupleLike)", "record",
                   0, SetRecord(values))
    /\ RowFrame

\* The record types of at most MaxRecordFields fields.
RecordTypes == UNION {[1..n -> FieldKinds] : n \in 0..MaxRecordFields}

InitBind ==
    /\ legacy = FALSE
    /\ boost = FALSE
    /\ \E n \in 0..MaxRecordFields, fields \in RecordTypes :
         /\ cls = "Statement"
         /\ ndebug = FALSE
         /\ life = [i \in Obj |-> IF i = 1 THEN "alive" ELSE "unborn"]
         /\ handle = [i \in Obj |-> IF i = 1 THEN "h" ELSE "null"]
         /\ movedFrom = [i \in Obj |-> FALSE]
         /\ txState = [i \in Obj |-> "ACTIVE"]
         /\ isMultiDatabase = [i \in Obj |-> FALSE]
         /\ attachments = <<>>
         /\ cursor = [i \in Obj |-> FALSE]
         /\ stType = "SELECT"
         /\ outCols = n
         /\ outRow = 0
         /\ engTx = "none"
         /\ engStmt = "prepared"
         /\ engCursors = 0
         /\ engRows = 0
         /\ engPos = 0
         /\ engAtt = "none"
         /\ op = [name |-> "none", obj |-> 0]
         /\ calls = <<>>
         /\ outcome = "none"
         /\ ret = "none"
         /\ aborted = FALSE
         /\ inDescriptors = [k \in 1..n |-> Descriptor("INT32", 0)]
         /\ outDescriptors = [k \in 1..n |-> Descriptor("INT32", 0)]
         /\ inNull = PreparedNull(n)
         /\ outNull = PreparedNull(n)
         /\ args = [NoArg EXCEPT !.fields = fields]
         /\ touched = {}
         /\ inMessage = [k \in 1..n |-> 0]
         /\ outMessage = [k \in 1..n |-> 0]

NextBind ==
    \/ \E shape \in {"struct", "tuple"} : BindGet(shape)
    \/ \E shape \in {"struct", "tuple"}, values \in RecordValues(args.fields) :
           BindSet(shape, values)
    \/ \E failAt \in {"none", "execute"} : RowExecute(failAt)
    \/ \E nulls \in [DOMAIN outNull -> BOOLEAN] : RowFetch(nulls)

(***************************************************************************)
(* Numeric conversion: the magnitudes the typed setters store in a         *)
(* fixed-point parameter and the getters read from a column (SpecNumber).  *)
(***************************************************************************)

\* The most fractional digits of a parameter, a column or a ScaledNumber of the model.
MaxScaleDigits == 2

NumScales == (0 - MaxScaleDigits)..0

\* The integer types of the model, as adjusted types and as C++ types T.
IntTypes == {"INT16", "INT32", "INT64"}

\* std::numeric_limits<T>::max(); no magnitude of the model reaches the 64-bit limits.
IntMax(T) == IF T = "INT16" THEN 32767 ELSE 2147483647

IntMin(T) == (0 - IntMax(T)) - 1

RECURSIVE Pow10(_)
Pow10(n) == IF n <= 0 THEN 1 ELSE 10 * Pow10(n - 1)

\* v * p lies in the range of T, decided without leaving the range.
ProductFits(T, v, p) ==
    \/ T = "INT64"
    \/ /\ v <= IntMax(T) \div p
       /\ v >= (IF IntMin(T) % p = 0 THEN IntMin(T) \div p ELSE (IntMin(T) \div p) + 1)

\* v / p, truncated toward zero.
Quotient(v, p) == IF v >= 0 THEN v \div p ELSE 0 - ((0 - v) \div p)

\* A std::optional<int> is the empty sequence or the sequence of its value.
Nullopt == <<>>

Converted(v, s) == [outcome |-> "returned", null |-> FALSE, value |-> v, scale |-> s]

ConversionFailed(out) == [outcome |-> out, null |-> FALSE, value |-> 0, scale |-> 0]

\* NumericConverter::numberToNumber<T>(ScaledNumber from, int toScale): multiplies or
\* divides by the power of ten between the two scales, truncating toward zero when digits
\* are dropped, and signals overflow when the result leaves the range of T.
NumberToNumber(T, from, toScale) ==
    IF toScale <= from.scale
      THEN LET p == Pow10(from.scale - toScale)
           IN IF ProductFits(T, from.value, p)
                THEN Converted(from.value * p, toScale)
                ELSE ConversionFailed("threw_conversion")
      ELSE LET q == Quotient(from.value, Pow10(toScale - from.scale))
           IN IF ProductFits(T, q, 1)
                THEN Converted(q, toScale)
                ELSE ConversionFailed("threw_conversion")

\* NumericConverter::numberToNumber<T>(double from, int toScale): a non-finite value is
\* an error; the finite values of the model are whole numbers.
DoubleToNumber(T, from, toScale) ==
    IF ~from.finite
      THEN ConversionFailed("threw_conversion")
      ELSE NumberToNumber(T, [value |-> from.whole, scale |-> 0], toScale)

\* Mutant: the magnitude is taken at scale 0, whatever scale the descriptor declares.
ConvertNumber_mut(T, descriptor, data, toScale) ==
    IF descriptor.adjustedType \in {"FLOAT", "DOUBLE"}
      THEN IF toScale = Nullopt THEN ConversionFailed("threw_invalid_type")
                                ELSE DoubleToNumber(T, data, toScale[1])
    ELSE IF descriptor.adjustedType \notin IntTypes
      THEN ConversionFailed("threw_invalid_type")
      ELSE NumberToNumber(T, [value |-> data, scale |-> 0],
                          IF toScale = Nullopt THEN descriptor.scale ELSE toScale[1])

\* Statement::convertNumber<T>(descriptor, data, toScale): a floating source needs a
\* toScale; for an integer source a missing toScale becomes the descriptor's scale; any
\* other descriptor of the model is not a number.
ConvertNumber(T, descriptor, data, toScale) ==
    IF descriptor.adjustedType \in {"FLOAT", "DOUBLE"}
      THEN IF toScale = Nullopt THEN ConversionFailed("threw_invalid_type")
                                ELSE DoubleToNumber(T, data, toScale[1])
    ELSE IF descriptor.adjustedType \notin IntTypes
      THEN ConversionFailed("threw_invalid_type")
      ELSE NumberToNumber(T, [value |-> data, scale |-> descriptor.scale],
                          IF toScale = Nullopt THEN descriptor.scale ELSE toScale[1])

\* The input message, its null flags and the outcome of a setter call.
Stored(msg, nulls, out) == [inMessage |-> msg, inNull |-> nulls, outcome |-> out]

\* Mutant: the value is handed over at the parameter's scale, so nothing is rescaled.
SetNumber_mut(index, valueType, value, scale) ==
    IF index >= Len(inDescriptors)
      THEN Stored(inMessage, inNull, "threw_out_of_range")
      ELSE LET d == inDescriptors[index + 1]
               c == ConvertNumber(d.adjustedType, Descriptor(valueType, d.scale), value,
                                  <<d.scale>>)
           IN IF d.adjustedType \notin IntTypes
                THEN Stored(inMessage, inNull, "threw_invalid_type")
              ELSE IF c.outcome # "returned"
                THEN Stored(inMessage, inNull, c.outcome)
                ELSE Stored([inMessage EXCEPT ![index + 1] = c.value],
                            [inNull EXCEPT ![index + 1] = FALSE], "returned")

\* Statement::setNumber<T>(index, valueType, value, scale, typeName): the value converted
\* to the parameter's type and scale is stored, then the null flag is cleared; a
\* conversion that throws does so before either is written.
SetNumber(index, valueType, value, scale) ==
    IF index >= Len(inDescriptors)
      THEN Stored(inMessage, inNull, "threw_out_of_range")
      ELSE LET d == inDescriptors[index + 1]
               c == ConvertNumber(d.adjustedType, Descriptor(valueType, scale), value,
                                  <<d.scale>>)
           IN IF d.adjustedType \notin IntTypes
                THEN Stored(inMessage, inNull, "threw_invalid_type")
              ELSE IF c.outcome # "returned"
                THEN Stored(inMessage, inNull, c.outcome)
                ELSE Stored([inMessage EXCEPT ![index + 1] = c.value],
                            [inNull EXCEPT ![index + 1] = FALSE], "returned")

\* Statement::getNumber<T>(index, scale, typeName): nullopt for a null column, else the
\* column's magnitude converted to T at the requested scale.
GetNumber(T, index, toScale) ==
    IF index >= Len(outDescriptors)
      THEN ConversionFailed("threw_out_of_range")
    ELSE IF outNull[index + 1]
      THEN [outcome |-> "returned", null |-> TRUE, value |-> 0, scale |-> 0]
      ELSE ConvertNumber(T, outDescriptors[index + 1], outMessage[index + 1], toScale)

Digits == <<"0", "1", "2", "3", "4", "5", "6", "7", "8", "9">>

IsDigit(c) == \E k \in DOMAIN Digits : Digits[k] = c

DigitValue(c) == (CHOOSE k \in DOMAIN Digits : Digits[k] = c) - 1

\* std::string::find_last_of('.'): the position of the last point, 0 for npos.
FindLastDot(str) ==
    IF \E k \in DOMAIN str : str[k] = "."
      THEN CHOOSE k \in DOMAIN str : str[k] = "." /\ \A j \in (k + 1)..Len(str) : str[j] # "."
      ELSE 0

\* The loop of setString: one step of scale for each digit that follows the point.
RECURSIVE FractionDigits(_, _)
FractionDigits(str, pos) ==
    IF pos > Len(str) \/ ~IsDigit(str[pos]) THEN 0 ELSE 1 + FractionDigits(str, pos + 1)

RECURSIVE DigitsValue(_, _)
DigitsValue(str, acc) ==
    IF str = <<>> THEN acc ELSE DigitsValue(Tail(str), 10 * acc + DigitValue(Head(str)))

\* std::from_chars into std::int64_t, accepted only when the whole text was consumed: an
\* optional minus sign followed by at least one digit and nothing else.
FromChars(str) ==
    LET neg == str # <<>> /\ Head(str) = "-"
        body == IF neg THEN Tail(str) ELSE str
    IN IF body = <<>> \/ \E k \in DOMAIN body : ~IsDigit(body[k])
         THEN ConversionFailed("threw_conversion")
         ELSE Converted(IF neg THEN 0 - DigitsValue(body, 0) ELSE DigitsValue(body, 0), 0)

\* Mutant: the point is dropped without counting the digits that follow it.
SetStringNumber_mut(index, str) ==
    IF index >= Len(inDescriptors)
      THEN Stored(inMessage, inNull, "threw_out_of_range")
      ELSE LET d == inDescriptors[index + 1]
               dotPos == FindLastDot(str)
               strValue == IF dotPos = 0 THEN str
                           ELSE SubSeq(str, 1, dotPos - 1) \o SubSeq(str, dotPos + 1, Len(str))
               parsed == FromChars(strValue)
               scaled == NumberToNumber("INT64", [value |-> parsed.value, scale |-> 0], d.scale)
           IN IF parsed.outcome # "returned"
                THEN Stored(inMessage, inNull, parsed.outcome)
              ELSE IF scaled.outcome # "returned"
                THEN Stored(inMessage, inNull, scaled.outcome)
                ELSE SetNumber(index, "INT64", scaled.value, d.scale)

\* Statement::setString on an INT16, INT32 or INT64 parameter: the digits after the last
\* point give the scale, the text without that point is the magnitude, which is rescaled
\* to the parameter's scale and stored through setScaledInt64.
SetStringNumber(index, str) ==
    IF index >= Len(inDescriptors)
      THEN Stored(inMessage, inNull, "threw_out_of_range")
      ELSE LET d == inDescriptors[index + 1]
               dotPos == FindLastDot(str)
               scale == IF dotPos = 0 THEN 0 ELSE 0 - FractionDigits(str, dotPos + 1)
               strValue == IF dotPos = 0 THEN str
                           ELSE SubSeq(str, 1, dotPos - 1) \o SubSeq(str, dotPos + 1, Len(str))
               parsed == FromChars(strValue)
               scaled == IF scale # d.scale
                           THEN NumberToNumber("INT64", [value |-> parsed.value, scale |-> scale],
                                               d.scale)
                           ELSE Converted(parsed.value, d.scale)
           IN IF d.adjustedType \notin IntTypes
                THEN Stored(inMessage, inNull, "threw_invalid_type")
              ELSE IF parsed.outcome # "returned"
                THEN Stored(inMessage, inNull, parsed.outcome)
              ELSE IF scaled.outcome # "returned"
                THEN Stored(inMessage, inNull, scaled.outcome)
                ELSE SetNumber(index, "INT64", scaled.value, d.scale)

\* The update of the message variables by a numeric setter call.
ApplyStore(nm, T, index, value, scale, r) ==
    /\ inMessage' = r.inMessage
    /\ inNull' = r.inNull
    /\ touched' = IF r.outcome = "returned" THEN {<<"in", index>>} ELSE {}
    /\ args' = [args EXCEPT !.index = index, !.type = T, !.value = value, !.scale = scale]
    /\ Done(nm, 1, <<>>, r.outcome, "none")
    /\ UNCHANGED <<outMessage, outNull, aborted>>
    /\ UNCHANGED <<objVars, txVars, stVars, engTxVars, engStVars, engAttVars, legacy, ndebug,
                   cls, boost, inDescriptors, outDescriptors>>

\* setInt16 / setInt32 (scale 0) and setScaledInt16 / setScaledInt32 with a value of type T.
NumSet(T, index, value, scale) ==
    /\ Running("Statement", 1)
    /\ IntMin(T) <= value /\ value <= IntMax(T)
    /\ ApplyStore("set", T, index, value, scale, SetNumber(index, T, value, scale))

\* setString on the numeric parameter.
NumSetString(index, str) ==
    /\ Running("Statement", 1)
    /\ ApplyStore("setString", "STRING", index, str, "none", SetStringNumber(index, str))

\* Statement::execute of "select cast(? as <the parameter's type>)": the engine returns
\* the parameter as the column of the row.
NumExecute ==
    /\ Running("Statement", 1)
    /\ outMessage' = inMessage
    /\ outNull' = inNull
    /\ touched' = {}
    /\ args' = [args EXCEPT !.index = 0, !.type = "none", !.value = "none", !.scale = "none"]
    /\ Done("execute", 1, <<Call("execute", TRUE)>>, "returned", TRUE)
    /\ UNCHANGED <<inMessage, inNull, aborted>>
    /\ UNCHANGED <<objVars, txVars, stVars, engTxVars, engStVars, engAttVars, legacy, ndebug,
                   cls, boost, inDescriptors, outDescriptors>>

\* getInt16 / getInt32 (toScale 0) and getScaledInt16 / getScaledInt32 (toScale absent).
NumGet(T, index, toScale) ==
    /\ Running("Statement", 1)
    /\ LET r == GetNumber(T, index, toScale)
       IN /\ touched' = IF r.outcome = "threw_out_of_range" THEN {} ELSE {<<"out", index>>}
          /\ args' = [args EXCEPT !.index = index, !.type = T, !.value = "none",
                                  !.scale = toScale]
          /\ Done("get", 1, <<>>, r.outcome,
                  IF r.outcome # "returned" THEN "none"
                  ELSE IF r.null THEN "nullopt"
                  ELSE [value |-> r.value, scale |-> r.scale])
    /\ UNCHANGED <<inNull, outNull, aborted>>
    /\ RowFrame

\* Values handed to the numeric setters.
NumValues == {-15, 100, 12345}

\* Texts handed to setString, one character per element.
NumTexts ==
    { <<"1", "2", "3", ".", "4", "5">>, <<"1", ".", "5">>, <<"1", "5">>, <<"-", "1", ".", "5">>,
      <<"7", ".">>, <<"1", ".", "2", ".", "3">>, <<"1", "x">>, <<>>,
      <<"9", ".", "8", "7", "6">> }

\* The parameters and columns the numeric accessors are called on.
NumIndexes == 0..(Len(inDescriptors) - 1)

InitNumber ==
    /\ legacy = FALSE
    /\ boost = FALSE
    /\ \E t \in {"INT16", "INT32"}, s \in NumScales : Prepared(t, s, 1)

NextNumber ==
    \/ \E T \in {"INT16", "INT32"}, index \in NumIndexes, v \in NumValues, s \in NumScales :
           NumSet(T, index, v, s)
    \/ \E index \in NumIndexes, str \in NumTexts : NumSetString(index, str)
    \/ NumExecute
    \/ \E T \in {"INT16", "INT32"}, index \in NumIndexes, toScale \in {<<0>>, Nullopt} :
           NumGet(T, index, toScale)

(***************************************************************************)
(* Typed setters on a statement with a VARCHAR and a SMALLINT parameter:   *)
(* what each call stores and what a failing call leaves behind (SpecText). *)
(***************************************************************************)

\* The longest declared length of the VARCHAR parameter.
MaxStrLen == 2

TextDescriptor(len) == [adjustedType |-> "STRING", scale |-> 0, length |-> len]

\* Mutant: the characters that fit are copied before the truncation error is raised.
SetString_mut(index, str) ==
    IF index >= Len(inDescriptors)
      THEN Stored(inMessage, inNull, "threw_out_of_range")
      ELSE LET d == inDescriptors[index + 1]
           IN IF d.adjustedType \in IntTypes
                THEN SetStringNumber(index, str)
              ELSE IF d.adjustedType # "STRING"
                THEN Stored(inMessage, inNull, "threw_invalid_type")
              ELSE IF Len(str) > d.length
                THEN Stored([inMessage EXCEPT ![index + 1] = SubSeq(str, 1, d.length)],
                            inNull, "threw_string_truncation")
                ELSE Stored([inMessage EXCEPT ![index + 1] = str],
                            [inNull EXCEPT ![index + 1] = FALSE], "returned")

\* Statement::setString (modern build): a text longer than the declared length raises
\* isc_string_truncation before anything is written; a numeric parameter takes the parsed
\* number.
SetString(index, str) ==
    IF index >= Len(inDescriptors)
      THEN Stored(inMessage, inNull, "threw_out_of_range")
      ELSE LET d == inDescriptors[index + 1]
           IN IF d.adjustedType \in IntTypes
                THEN SetStringNumber(index, str)
              ELSE IF d.adjustedType # "STRING"
                THEN Stored(inMessage, inNull, "threw_invalid_type")
              ELSE IF Len(str) > d.length
                THEN Stored(inMessage, inNull, "threw_string_truncation")
                ELSE Stored([inMessage EXCEPT ![index + 1] = str],
                            [inNull EXCEPT ![index + 1] = FALSE], "returned")

\* Statement::setString(short, std::string_view) (legacy build) on a VARCHAR parameter:
\* min(sqllen, size) characters are copied and the null indicator is cleared.
SetStringLegacy(index, str) ==
    LET d == inDescriptors[index + 1]
        len == IF d.length < Len(str) THEN d.length ELSE Len(str)
    IN Stored([inMessage EXCEPT ![index + 1] = SubSeq(str, 1, len)],
              [inNull EXCEPT ![index + 1] = FALSE], "returned")

\* The update of the message variables by a setter call of the run's build.
TextSet(nm, T, index, value, r) ==
    /\ Running("Statement", 1)
    /\ ApplyStore(nm, T, index, value, "none", r)

\* setString: the legacy build has no type check and is called on the VARCHAR parameter.
TextSetString(index, str) ==
    /\ legacy => index = 0
    /\ TextSet("setString", "STRING", index, str,
               IF legacy THEN SetStringLegacy(index, str) ELSE SetString(index, str))

\* setInt32 (modern build)
TextSetInt32(index, value) ==
    /\ ~legacy
    /\ TextSet("setInt32", "INT32", index, value, SetNumber(index, "INT32", value, 0))

\* setDouble (modern build)
TextSetDouble(index, value) ==
    /\ ~legacy
    /\ TextSet("setDouble", "DOUBLE", index, value, SetNumber(index, "DOUBLE", value, 0))

\* setNull
TextSetNull(index) ==
    /\ legacy => index < Len(inDescriptors)
    /\ \E r \in SetNullModern(index) :
           TextSet("setNull", "none", index, "none", Stored(inMessage, r.inNull, r.outcome))

\* Texts over a letter and a digit, up to one character longer than any declared length.
TextStrings == UNION {[1..n -> {"a", "7"}] : n \in 0..(MaxStrLen + 1)}

\* Doubles handed to setDouble: a whole number, infinity and NaN.
TextDoubles == {[finite |-> TRUE, whole |-> 7], [finite |-> FALSE, whole |-> 1],
                [finite |-> FALSE, whole |-> 0]}

InitText ==
    /\ legacy \in BOOLEAN
    /\ boost = FALSE
    /\ \E len \in 1..MaxStrLen :
         PreparedWith(<<TextDescriptor(len), Descriptor("INT16", 0)>>, <<<<>>, 0>>)

NextText ==
    \/ \E index \in 0..2, str \in TextStrings : TextSetString(index, str)
    \/ \E index \in 0..2, v \in {7, 40000} : TextSetInt32(index, v)
    \/ \E index \in 0..2, d \in TextDoubles : TextSetDouble(index, d)
    \/ \E index \in 0..2 : TextSetNull(index)

(***************************************************************************)
(* Calendar values of the legacy build: Date and Timestamp against the     *)
(* engine's ISC_DATE and ISC_TIMESTAMP (SpecCalendar).                     *)
(***************************************************************************)

\* Julian day of 1858-11-17, the engine's day 0.
FB_EPOCH_JULIAN == 2400001

\* dateToJulian(year, month, day); int division truncates toward zero.
dateToJulian(year, month, day) ==
    LET a == Quotient(14 - month, 12)
        y == year + 4800 - a
        m == month + 12 * a - 3
    IN day + Quotient(153 * m + 2, 5) + 365 * y + Quotient(y, 4) - Quotient(y, 100)
           + Quotient(y, 400) - 32045

\* Mutant: the cycle of 400 years is one day short.
julianToDate_mut(julian) ==
    LET a == julian + 32044
        b == Quotient(4 * a + 3, 146096)
        c == a - Quotient(146096 * b, 4)
        d == Quotient(4 * c + 3, 1461)
        e == c - Quotient(1461 * d, 4)
        m == Quotient(5 * e + 2, 153)
    IN [year |-> 100 * b + d - 4800 + Quotient(m, 10),
        month |-> m + 3 - 12 * Quotient(m, 10),
        day |-> e - Quotient(153 * m + 2, 5) + 1]

\* julianToDate(julian, year, month, day)
julianToDate(julian) ==
    LET a == julian + 32044
        b == Quotient(4 * a + 3, 146097)
        c == a - Quotient(146097 * b, 4)
        d == Quotient(4 * c + 3, 1461)
        e == c - Quotient(1461 * d, 4)
        m == Quotient(5 * e + 2, 153)
    IN [year |-> 100 * b + d - 4800 + Quotient(m, 10),
        month |-> m + 3 - 12 * Quotient(m, 10),
        day |-> e - Quotient(153 * m + 2, 5) + 1]

\* Date::Date(ISC_DATE iscDate)
Date(iscDate) == julianToDate(iscDate + FB_EPOCH_JULIAN)

\* Date::toIscDate
toIscDate(ymd) == dateToJulian(ymd.year, ymd.month, ymd.day) - FB_EPOCH_JULIAN

\* Timestamp::Timestamp(ISC_TIMESTAMP): the time of day, in units of 100 microseconds,
\* split by std::chrono::hh_mm_ss into hours, minutes, seconds and microseconds.
Timestamp(iscTs) ==
    [date |-> Date(iscTs.timestamp_date),
     time |-> [hours |-> iscTs.timestamp_time \div 36000000,
               minutes |-> (iscTs.timestamp_time \div 600000) % 60,
               seconds |-> (iscTs.timestamp_time \div 10000) % 60,
               subseconds |-> (iscTs.timestamp_time % 10000) * 100]]

\* Timestamp::toIscTimestamp: time.to_duration().count() / 100, taken part by part.
toIscTimestamp(ts) ==
    [timestamp_date |-> toIscDate(ts.date),
     timestamp_time |-> ts.time.hours * 36000000 + ts.time.minutes * 600000
                            + ts.time.seconds * 10000 + (ts.time.subseconds \div 100)]

\* std::chrono::year_month_day::ok
IsLeap(y) == y % 4 = 0 /\ (y % 100 # 0 \/ y % 400 = 0)

LastDay(y, m) ==
    IF m = 2 THEN (IF IsLeap(y) THEN 29 ELSE 28)
    ELSE IF m \in {4, 6, 9, 11} THEN 30 ELSE 31

\* The years whose every day is converted: the first and the last year of the engine's
\* range, the epoch's year, a century without and one with a leap day, and leap years.
CalendarYears == {1, 1600, 1858, 1900, 2000, 2024, 9999}

ValidDates == {ymd \in [year : CalendarYears, month : 1..12, day : 1..31] :
                  ymd.day <= LastDay(ymd.year, ymd.month)}

\* Days on each side of the epoch whose timestamps are converted.
MaxDays == 200

\* Engine dates: the days around the epoch, 0001-01-01 and 9999-12-31.
IscDates == ((0 - MaxDays)..MaxDays) \cup {-678575, 2973483}

\* Engine times of day, in units of 100 microseconds, up to the last one of a day.
IscTimes == {0, 1, 9999, 10000, 599999, 600000, 36000000, 432000000, 863999999}

\* The update of the history by a conversion; no statement is involved.
Conversion(nm, input, result) ==
    /\ ~aborted
    /\ args' = [args EXCEPT !.value = input]
    /\ Done(nm, 0, <<>>, "returned", result)
    /\ UNCHANGED <<objVars, txVars, stVars, engTxVars, engStVars, engAttVars, cfgVars, boost,
                   inDescriptors, outDescriptors, inNull, outNull, touched, inMessage,
                   outMessage>>

\* d.toIscDate() for a calendar date d, the value a run converts
CalToIscDate(ymd) ==
    /\ op.name = "none"
    /\ Conversion("toIscDate", ymd, toIscDate(ymd))

\* Date(i) for the engine date i that toIscDate returned
CalDate ==
    /\ op.name = "toIscDate"
    /\ Conversion("Date", args.value, Date(ret))

\* Timestamp(t) for an engine timestamp t, the value a run converts
CalTimestamp(iscTs) ==
    /\ op.name = "none"
    /\ Conversion("Timestamp", iscTs, Timestamp(iscTs))

\* ts.toIscTimestamp() for the Timestamp ts that the constructor built
CalToIscTimestamp ==
    /\ op.name = "Timestamp"
    /\ Conversion("toIscTimestamp", args.value, toIscTimestamp(ret))

InitCalendar ==
    /\ Init
    /\ legacy /\ ~ndebug /\ cls = "Statement"

NextCalendar ==
    \/ \E ymd \in ValidDates : CalToIscDate(ymd)
    \/ CalDate
    \/ \E d \in IscDates, t \in IscTimes :
           CalTimestamp([timestamp_date |-> d, timestamp_time |-> t])
    \/ CalToIscTimestamp

(***************************************************************************)
(* Statement constructor: the descriptors and the message layout derived   *)
(* from the engine's metadata (SpecMetadata).                              *)
(***************************************************************************)

\* The most fields of a message whose metadata is processed.
MaxMetaFields == 3

\* Wire types: the three the constructor normalises and two it keeps.
OriginalTypes == {"TEXT", "TIME_TZ_EX", "TIMESTAMP_TZ_EX", "VARYING", "LONG"}

\* The wire type the builder is told to use, and the adjusted type of the descriptor.
Normalised(t) ==
    IF t = "TEXT" THEN [wire |-> "VARYING", adjustedType |-> "STRING"]
    ELSE IF t = "TIME_TZ_EX" THEN [wire |-> "TIME_TZ", adjustedType |-> "TIME_TZ"]
    ELSE IF t = "TIMESTAMP_TZ_EX" THEN [wire |-> "TIMESTAMP_TZ", adjustedType |-> "TIMESTAMP_TZ"]
    ELSE [wire |-> t, adjustedType |-> IF t = "VARYING" THEN "STRING" ELSE "INT32"]

NeedsBuilder(t) == t \in {"TEXT", "TIME_TZ_EX", "TIMESTAMP_TZ_EX"}

\* metadata->getOffset(index) / getNullOffset(index) / getMessageLength() of the metadata
\* set named: what the engine answers is identified by the set that was asked.
OffsetOf(set, index) == [from |-> set, what |-> "offset", index |-> index]

NullOffsetOf(set, index) == [from |-> set, what |-> "nullOffset", index |-> index]

LengthOf(set) == [from |-> set, what |-> "length"]

\* Descriptor{.offset = 0, .nullOffset = 0}: not read from any metadata set yet.
Unset == [from |-> "none", what |-> "zero", index |-> 0]

\* The first loop of processMetadata from field index on: [builder, descriptors, calls]
RECURSIVE MetadataLoop(_, _, _)
MetadataLoop(types, index, acc) ==
    IF index >= Len(types) THEN acc
    ELSE LET t == types[index + 1]
             create == NeedsBuilder(t) /\ ~acc.builder
             builder == acc.builder \/ NeedsBuilder(t)
             descriptor == [originalType |-> t,
                            adjustedType |-> Normalised(t).adjustedType,
                            offset |-> IF builder THEN Unset ELSE OffsetOf("original", index),
                            nullOffset |-> IF builder THEN Unset
                                           ELSE NullOffsetOf("original", index)]
         IN MetadataLoop(types, index + 1,
                [builder |-> builder,
                 descriptors |-> Append(acc.descriptors, descriptor),
                 calls |-> acc.calls \o (IF create THEN <<Call("getBuilder", TRUE)>> ELSE <<>>)])

\* Mutant: after the builder's metadata is fetched the offsets are not read again.
ProcessMetadata_mut(types) ==
    LET r == MetadataLoop(types, 0, [builder |-> FALSE, descriptors |-> <<>>, calls |-> <<>>])
    IN IF r.builder
         THEN [descriptors |-> r.descriptors,
               length |-> LengthOf("revised"),
               calls |-> r.calls \o <<Call("getMetadata", TRUE)>>]
         ELSE [descriptors |-> r.descriptors, length |-> LengthOf("original"), calls |-> r.calls]

\* processMetadata(metadata, descriptors, message): [descriptors, length, calls]
ProcessMetadata(types) ==
    LET r == MetadataLoop(types, 0, [builder |-> FALSE, descriptors |-> <<>>, calls |-> <<>>])
    IN IF r.builder
         THEN [descriptors |-> [k \in DOMAIN r.descriptors |->
                                   [r.descriptors[k] EXCEPT
                                       !.offset = OffsetOf("revised", k - 1),
                                       !.nullOffset = NullOffsetOf("revised", k - 1)]],
               length |-> LengthOf("revised"),
               calls |-> r.calls \o <<Call("getMetadata", TRUE)>>]
         ELSE [descriptors |-> r.descriptors, length |-> LengthOf("original"), calls |-> r.calls]

\* The frame of a metadata step.
MetadataFrame ==
    UNCHANGED <<objVars, txVars, stVars, engTxVars, engStVars, engAttVars, cfgVars, boost,
                touched, inMessage, outMessage>>

\* processMetadata(inMetadata, inDescriptors, inMessage) in the constructor: every null flag
\* of the message is set.
MetaInput(types) ==
    /\ ~aborted /\ op.name = "none"
    /\ LET r == ProcessMetadata(types)
       IN /\ inDescriptors' = r.descriptors
          /\ inNull' = [k \in DOMAIN types |-> TRUE]
          /\ args' = [args EXCEPT !.fields = types]
          /\ Done("processMetadata(in)", 1, r.calls, "returned", r.length)
    /\ UNCHANGED <<outDescriptors, outNull>>
    /\ MetadataFrame

\* processMetadata(outMetadata, outDescriptors, outMessage) in the constructor
MetaOutput(types) ==
    /\ ~aborted /\ op.name = "processMetadata(in)"
    /\ LET r == ProcessMetadata(types)
       IN /\ outDescriptors' = r.descriptors
          /\ outNull' = [k \in DOMAIN types |-> TRUE]
          /\ args' = [args EXCEPT !.fields = types]
          /\ Done("processMetadata(out)", 1, r.calls, "returned", r.length)
    /\ UNCHANGED <<inDescriptors, inNull>>
    /\ MetadataFrame

\* The fields of a message, by wire type.
MetadataFields == UNION {[1..n -> OriginalTypes] : n \in 0..MaxMetaFields}

InitMetadata ==
    /\ Init
    /\ ~legacy /\ ~ndebug /\ cls = "Statement"

NextMetadata ==
    \/ \E types \in MetadataFields : MetaInput(types)
    \/ \E types \in {<<>>, <<"LONG">>, <<"TEXT">>} : MetaOutput(types)

(***************************************************************************)
(* Properties                                                              *)
(***************************************************************************)

\* The step just taken was operation nm on an object i that was alive before it.
Stepped(nm, i) == op'.name = nm /\ op'.obj = i /\ i \in Obj /\ life[i] = "alive"

\* The edges of the transaction state machine, with the operation that takes each.
Edge(a, b, nm) ==
    \/ a = "ACTIVE" /\ b = "PREPARED" /\ nm = "prepare"
    \/ a = "ACTIVE" /\ b = "COMMITTED" /\ nm = "commit"
    \/ a = "ACTIVE" /\ b = "ROLLED_BACK" /\ nm \in {"rollback", "dtor"}
    \/ a = "PREPARED" /\ b = "COMMITTED" /\ nm = "commit"
    \/ a = "PREPARED" /\ b = "ROLLED_BACK" /\ nm = "rollback"

\* C1 as stated: over any sequence of Transaction operations the state of a live
\* Transaction changes only along ACTIVE->PREPARED (prepare), ACTIVE->COMMITTED
\* (commit), ACTIVE->ROLLED_BACK (rollback), PREPARED->COMMITTED and
\* PREPARED->ROLLED_BACK, so a COMMITTED or ROLLED_BACK state never changes.
C1_Original ==
    [][\A i \in Obj :
          life[i] = "alive" /\ txState'[i] # txState[i]
              => Edge(txState[i], txState'[i], op'.name)]_vars

\* C1 amended: the state of a live Transaction changes only along the five edges,
\* each taken by its operation, or to ROLLED_BACK on the source of a move
\* construction, whatever the source's state was.
C1_Transitions ==
    [][\A i \in Obj :
          life[i] = "alive" /\ txState'[i] # txState[i]
              => \/ Edge(txState[i], txState'[i], op'.name)
                 \/ op'.name = "move" /\ op'.obj = i /\ txState'[i] = "ROLLED_BACK"]_vars

\* A committed Transaction has been moved from: its state now reads ROLLED_BACK.
C1_Witness ==
    /\ cls = "Transaction" /\ op.name = "move"
    /\ engTx = "committed" /\ txState[1] = "ROLLED_BACK" /\ txState[2] = "COMMITTED"

\* C2: commitRetaining and rollbackRetaining run only on a valid ACTIVE
\* transaction, and after either one the transaction is still ACTIVE and valid.
C2_Retaining ==
    [][\A i \in Obj :
          Stepped("commitRetaining", i) \/ Stepped("rollbackRetaining", i)
              => /\ txState[i] = "ACTIVE" /\ handle[i] # "null"
                 /\ txState'[i] = "ACTIVE" /\ handle'[i] # "null"
                 /\ life'[i] = "alive"]_vars

\* rollbackRetaining has completed on a transaction that had been retained before.
C2_Witness ==
    /\ op.name = "rollbackRetaining" /\ outcome = "returned"
    /\ txState[op.obj] = "ACTIVE" /\ handle[op.obj] # "null" /\ engTx = "active"

\* C3: destroying a Transaction that is still ACTIVE calls the engine's rollback
\* once, and the destructor returns whether or not that rollback failed.
C3_DtorRollsBack ==
    [][\A i \in Obj :
          cls = "Transaction" /\ Stepped("dtor", i) /\ txState[i] = "ACTIVE"
              => /\ Len(calls') = 1 /\ calls'[1].fn = "rollback"
                 /\ outcome' = "returned"
                 /\ life'[i] = "destroyed"
                 /\ (calls'[1].ok => engTx' = "rolledback")]_vars

\* An ACTIVE Transaction has been destroyed and its implicit rollback failed.
C3_Witness ==
    /\ cls = "Transaction" /\ op.name = "dtor" /\ life[op.obj] = "destroyed"
    /\ calls = <<Call("rollback", FALSE)>> /\ outcome = "returned"

\* C4: destroying a Transaction that is PREPARED (never committed or rolled back
\* after prepare) is always flagged as a fatal usage error.
C4_PreparedDtorFatal ==
    [][\A i \in Obj :
          cls = "Transaction" /\ Stepped("dtor", i) /\ txState[i] = "PREPARED"
              => aborted' /\ outcome' = "aborted"]_vars

\* Two attachments of the list use different clients.
Mixed(atts) == \E a, b \in 1..Len(atts) : atts[a] # atts[b]

\* C5: constructing a multi-attachment Transaction over attachments of different
\* Clients throws at construction, before any engine call, and no Transaction
\* comes to exist; every multi-database Transaction that exists spans attachments
\* of one Client, so prepare and commit never meet a mismatch.
C5_ClientMismatch ==
    /\ op.name = "ctorMulti" /\ Mixed(attachments)
         => /\ outcome = "threw_invalid_argument"
            /\ calls = <<>>
            /\ engTx = "none"
            /\ \A i \in Obj : life[i] = "unborn"
    /\ \A i \in Obj : life[i] # "unborn" /\ isMultiDatabase[i] => ~Mixed(attachments)

\* The constructor has just refused attachments of two different clients.
C5_Witness ==
    /\ op.name = "ctorMulti" /\ Mixed(attachments)
    /\ outcome = "threw_invalid_argument"

\* C6: an object that has been move-constructed from is invalid from then on and
\* owns no cursor, its destructor makes no engine call, and at most one object
\* holds the engine handle.
C6_MovedFrom ==
    /\ \A i \in Obj : movedFrom[i] => handle[i] = "null" /\ ~cursor[i]
    /\ op.name = "dtor" /\ op.obj \in Obj /\ movedFrom[op.obj] => calls = <<>>
    /\ Cardinality({i \in Obj : handle[i] # "null"}) <= 1

\* A moved-from Statement has been destroyed while the destination holds the
\* handle and the open cursor.
C6_Witness ==
    /\ cls = "Statement" /\ op.name = "dtor" /\ op.obj = 1 /\ movedFrom[1]
    /\ life[1] = "destroyed" /\ handle[2] = "h" /\ cursor[2] /\ engCursors = 1

\* C7: when the engine prepares a statement and reports its kind as
\* START_TRANSACTION, COMMIT, ROLLBACK, GET_SEGMENT or PUT_SEGMENT, and no engine
\* call of the construction fails, the constructor throws a usage error and no
\* Statement comes to exist.
C7_UnsupportedKinds ==
    ( /\ cls = "Statement" /\ op.name = "ctor"
      /\ stType \in {"START_TRANSACTION", "COMMIT", "ROLLBACK", "GET_SEGMENT", "PUT_SEGMENT"}
      /\ \A k \in 1..Len(calls) : calls[k].ok )
        => outcome = "threw_usage" /\ life[1] = "unborn"

\* C8: an execute of a SELECT or SELECT_FOR_UPDATE statement that returns has
\* opened a cursor and fetched once; it returns TRUE exactly when the result set
\* has a first row, which is then the row in the output buffer; the cursor stays
\* open and no row beyond the first has been taken from it.
C8_ExecuteFetchesFirst ==
    cls = "Statement" /\ op.name = "execute" /\ stType \in RowReturning /\ outcome = "returned"
        => /\ cursor[op.obj] /\ engCursors = 1
           /\ Len(SelectSeq(calls, LAMBDA c : c.fn = "fetchNext")) = 1
           /\ ret = (engRows >= 1)
           /\ engPos = (IF engRows >= 1 THEN 1 ELSE 0)
           /\ (ret = TRUE => outRow = 1)

\* execute on a SELECT whose result set has two rows returned TRUE with the first.
C8_Witness ==
    /\ cls = "Statement" /\ op.name = "execute" /\ stType = "SELECT" /\ outcome = "returned"
    /\ ret = TRUE /\ engRows = 2 /\ engPos = 1 /\ cursor[op.obj]

\* The new execution of an execute reached the engine.
Executed(cs) == \E k \in 1..Len(cs) : cs[k].fn \in {"openCursor", "execute"}

FetchOps == ScrollFetches \cup {"fetchNext"}

\* C11: a fetch operation (fetchNext, fetchPrior, fetchFirst, fetchLast,
\* fetchAbsolute, fetchRelative) on a statement that has no open result set
\* returns FALSE without calling the engine, and leaves the cursor, the engine and
\* the output buffer as they were.
C11_FetchWithoutResultSet ==
    [][\A i \in Obj :
          ( /\ cls = "Statement" /\ op'.name \in FetchOps /\ op'.obj = i
            /\ life[i] = "alive" /\ ~cursor[i] )
              => /\ outcome' = "returned" /\ ret' = FALSE /\ calls' = <<>>
                 /\ ~cursor'[i]
                 /\ UNCHANGED <<engCursors, engRows, engPos, outRow>>]_vars

\* fetchAbsolute has returned FALSE on an INSERT statement, which has no result set.
C11_Witness ==
    /\ cls = "Statement" /\ op.name = "fetchAbsolute" /\ stType = "INSERT"
    /\ ~cursor[op.obj] /\ ret = FALSE /\ calls = <<>> /\ engStmt = "prepared"

\* Every null flag of a message reads as null.
AllNull(flags) == \A k \in DOMAIN flags : flags[k]

\* C12: immediately after a statement is prepared every parameter's and every column's
\* null flag reads as null, so a parameter that is never set is sent to the engine as
\* NULL (and comes back as a null column).
C12_NullAfterPrepare ==
    [][(cls = "Statement" /\ op.name = "none" /\ engStmt = "prepared")
          => /\ AllNull(inNull) /\ AllNull(outNull)
             /\ (op'.name = "execute" /\ outcome' = "returned") => AllNull(outNull')]_vars

\* The getter of the last step was called on column args'.index of the row.
GetStep == op'.name = "get" /\ InRange(outDescriptors, args'.index)

\* C13: a parameter whose last write was setNull comes back as a null column; every typed
\* getter on a null column returns absent whatever type it requests, and isNull is true
\* exactly when the typed getters return absent.
C13_NullRoundTrip ==
    [][/\ (op'.name = "setNull" /\ InRange(inDescriptors, args'.index))
            => inNull'[args'.index + 1]
       /\ (op'.name = "execute" /\ outcome' = "returned") => outNull' = inNull
       /\ (op'.name = "isNull" /\ InRange(outDescriptors, args'.index))
            => ret' = outNull[args'.index + 1]
       /\ GetStep => (outNull[args'.index + 1] <=> (outcome' = "returned" /\ ret' = "absent"))]_vars

\* The adjusted types a typed getter can represent: those it converts from when every
\* conversion is compiled in; for the plain getters of the legacy build, the type they read.
Represents(g, t) ==
    IF g = "getBool" THEN t = "BOOLEAN"
    ELSE IF g \in ModernGetters(TRUE) THEN t \in GetterAccepts(g, TRUE)
    ELSE IF g \in DOMAIN RawGetters THEN t = RawGetters[g]
    ELSE FALSE

\* C14: on a non-null column, a typed getter whose type cannot represent the column's
\* adjusted type raises an invalid-type error and yields no value.
C14_InvalidType ==
    [][( /\ GetStep
         /\ ~outNull[args'.index + 1]
         /\ ~Represents(args'.type, outDescriptors[args'.index + 1].adjustedType) )
          => outcome' = "threw_invalid_type" /\ ret' = "none"]_vars

\* The accessor of the last step was called with an index outside the parameters
\* (setters) or outside the columns (getters).
OutOfRangeStep ==
    \/ op'.name \in {"setNull", "set"} /\ args'.index >= Len(inDescriptors)
    \/ op'.name \in {"isNull", "get"} /\ args'.index >= Len(outDescriptors)

\* C15: an indexed accessor called with an index >= the parameter or column count raises
\* an out-of-range error and reads or writes no buffer byte.
C15_OutOfRange ==
    [][OutOfRangeStep
          => /\ outcome' = "threw_out_of_range"
             /\ touched' = {}
             /\ UNCHANGED <<inNull, outNull>>]_vars

\* The last step read a row into the record type of the run / wrote a record of it.
RecordGetStep == op'.name \in {"get<Aggregate>", "get<TupleLike>"}
RecordSetStep == op'.name \in {"set(Aggregate)", "set(TupleLike)"}

\* C16: reading or writing a record or tuple whose field count differs from the column or
\* parameter count raises an error before any column is read or any parameter is written.
C16_FieldCount ==
    [][( \/ RecordGetStep /\ Len(args.fields) # Len(outDescriptors)
         \/ RecordSetStep /\ Len(args.fields) # Len(inDescriptors) )
          => /\ outcome' = "threw_field_count" /\ ret' = "none"
             /\ touched' = {}
             /\ UNCHANGED <<inNull, outNull>>]_vars

C16_Witness ==
    /\ op.name = "set(TupleLike)" /\ Len(args.fields) = 2 /\ Len(inDescriptors) = 1
    /\ outcome = "threw_field_count" /\ touched = {} /\ inNull = <<TRUE>>

\* The columns of the row that are null and bound to a field of one of the kinds.
NullBoundTo(kinds) == {k \in DOMAIN outNull : outNull[k] /\ args.fields[k] \in kinds}

VariantStep == op'.name = "get<Variant>" /\ InRange(outDescriptors, args'.index)

\* C18: reading a null column as a variant returns std::monostate when the variant
\* declares it and raises an error when it does not, whatever the column's type and
\* whatever the other alternatives are.
C18_NullVariant ==
    [][(VariantStep /\ outNull[args'.index + 1])
          => IF VariantContains("monostate", args.alts)
               THEN outcome' = "returned" /\ ret' = "monostate"
               ELSE outcome' = "threw_null_variant" /\ ret' = "none"]_vars

C18_Witness ==
    /\ op.name = "get<Variant>" /\ outNull[1] /\ args.index = 0
    /\ outDescriptors[1].adjustedType = "INT128"
    /\ args.alts = <<"getString", "monostate">>
    /\ outcome = "returned" /\ ret = "monostate"

\* The alternatives that match a column exactly or keep its scale and precision: a scaled
\* integer of the same or a larger width for a column with a scale, the native opaque
\* alternative for 128-bit, decimal-float and date/time columns, the type itself otherwise.
Preserving(d) ==
    LET t == d.adjustedType
    IN IF d.scale # 0 /\ t \in {"INT16", "INT32", "INT64"}
         THEN CASE t = "INT16" -> {"getScaledInt16", "getScaledInt32", "getScaledInt64",
                                   "getScaledBoostInt128"}
                [] t = "INT32" -> {"getScaledInt32", "getScaledInt64", "getScaledBoostInt128"}
                [] t = "INT64" -> {"getScaledInt64", "getScaledBoostInt128"}
       ELSE CASE t = "INT128" -> {"getScaledOpaqueInt128"}
              [] t = "DECFLOAT16" -> {"getOpaqueDecFloat16"}
              [] t = "DECFLOAT34" -> {"getOpaqueDecFloat34"}
              [] t = "DATE" -> {"getOpaqueDate"}
              [] t = "TIME" -> {"getOpaqueTime"}
              [] t = "TIMESTAMP" -> {"getOpaqueTimestamp"}
              [] t = "TIME_TZ" -> {"getOpaqueTimeTz"}
              [] t = "TIMESTAMP_TZ" -> {"getOpaqueTimestampTz"}
              [] t = "BOOLEAN" -> {"getBool"}
              [] t = "INT16" -> {"getInt16"}
              [] t = "INT32" -> {"getInt32"}
              [] t = "INT64" -> {"getInt64"}
              [] t = "FLOAT" -> {"getFloat"}
              [] t = "DOUBLE" -> {"getDouble"}
              [] t = "STRING" -> {"getString"}
              [] t = "BLOB" -> {"getBlobId"}

\* C19: on a non-null column, when the variant contains an alternative that matches the
\* column's adjusted type exactly or preserves its scale/precision, variant reading
\* returns such an alternative, whatever its position in the declaration order.
C19_ExactPreferred ==
    [][( /\ VariantStep
         /\ ~outNull[args'.index + 1]
         /\ \E k \in DOMAIN args.alts :
               args.alts[k] \in Preserving(outDescriptors[args'.index + 1]) )
          => /\ outcome' = "returned"
             /\ ret' \in Preserving(outDescriptors[args'.index + 1])]_vars

\* Alternatives whose conversion from a column of type t succeeds whatever the stored
\* value is: the getter has a case for t and converts no number.
SurelyConverts(g, t) ==
    /\ g # "monostate" /\ ~IsOpaqueType(g)
    /\ t \in GetterAccepts(g, boost)
    /\ g \notin ConvertingGetters(boost)

\* C20: without an exact match, variant reading tries the remaining alternatives in their
\* declared order, skipping std::monostate and the opaque ones, and returns the first whose
\* conversion succeeds; an error is raised only when no alternative converts.
C20_FallbackOrder ==
    [][( /\ VariantStep
         /\ ~outNull[args'.index + 1]
         /\ FirstContained(ExactAlternatives(outDescriptors[args'.index + 1], boost),
                           args.alts) = "none" )
          => /\ outcome' = "returned" => VariantContains(ret', args.alts)
             /\ (\E k \in DOMAIN args.alts :
                    SurelyConverts(args.alts[k], outDescriptors[args'.index + 1].adjustedType))
                  => outcome' = "returned"]_vars

\* C25: for the same statement kind and the same engine responses, execute returns the
\* same boolean in the legacy build as in the modern build.
C25_SameAnswer ==
    \A i \in Obj, failAt \in ExecuteFailPoints, rows \in 0..MaxRows :
        (cls = "Statement" /\ ~aborted /\ life[i] = "alive" /\ StIsValid(i))
            => LET m == ExecuteModern(i, failAt, rows)
                   l == ExecuteLegacy(i, failAt, rows)
               IN (m.outcome = "returned" /\ l.outcome = "returned") => l.ret = m.ret

\* C28: when the engine rejects commit() or rollback(), the call raises an error and the
\* transaction keeps the state it had before the call and remains valid, in both builds.
C28_RejectedKeepsState ==
    [][\A i \in Obj :
        (cls = "Transaction" /\ op'.name \in {"commit", "rollback"} /\ op'.obj = i
            /\ outcome' = "threw_engine")
            => (txState'[i] = txState[i] /\ handle'[i] = handle[i] /\ TxIsValid(i)')]_vars

\* C30: an engine statement handle allocated by a Statement constructor is never leaked:
\* while the engine still holds the prepared statement, a living Statement object owns its
\* handle and will release it; stated for the legacy build, whose handle is a plain
\* isc_stmt_handle that only free() and the destructor release.
C30_NoLeak ==
    (legacy /\ cls = "Statement" /\ engStmt = "prepared")
        => \E i \in Obj : life[i] = "alive" /\ handle[i] # "null"

\* C21: a plain integer v bound to a fixed-point parameter of scale s is stored as
\* v * 10^(-s) (100 at scale -2 is stored as 10000); a scaled read of the column gives the
\* stored magnitude with scale s, and a plain read of it gives v back.
C21_AutoRescale ==
    [][/\ (op'.name = "set" /\ args'.scale = 0 /\ outcome' = "returned")
           => inMessage'[1] = args'.value * Pow10(0 - inDescriptors[1].scale)
       /\ (op'.name = "get" /\ outcome' = "returned" /\ ~outNull[1])
           => IF args'.scale = Nullopt
                THEN ret' = [value |-> outMessage[1], scale |-> outDescriptors[1].scale]
                ELSE (outMessage[1] % Pow10(0 - outDescriptors[1].scale) = 0)
                         => /\ ret'.scale = 0
                            /\ ret'.value * Pow10(0 - outDescriptors[1].scale) = outMessage[1]
      ]_vars

C21_Witness ==
    /\ op.name = "get" /\ outcome = "returned" /\ args.scale = <<0>>
    /\ outDescriptors[1].scale = -2 /\ outMessage = <<10000>> /\ ~outNull[1]
    /\ ret = [value |-> 100, scale |-> 0]

\* A ScaledNumber rescaled into T through convertNumber.
Rescale(T, x, S) == ConvertNumber(T, Descriptor("INT64", x.scale), x.value, <<S>>)

\* The column of the row as a ScaledNumber.
ColumnNumber == [value |-> outMessage[1], scale |-> outDescriptors[1].scale]

\* C22 as stated: rescaling a ScaledNumber to its own scale is a no-op, and rescaling to S1
\* and then to S2 equals rescaling directly to S2 whenever no overflow occurs.
C22_Original ==
    \A T \in {"INT16", "INT32"}, S1 \in NumScales, S2 \in NumScales :
        LET x == ColumnNumber
            own == Rescale(T, x, x.scale)
            a == Rescale(T, x, S1)
            b == Rescale(T, a, S2)
            d == Rescale(T, x, S2)
        IN /\ own.outcome = "returned" => own.value = x.value
           /\ (a.outcome = "returned" /\ b.outcome = "returned" /\ d.outcome = "returned")
                  => b.value = d.value

\* C22 amended: rescaling to the own scale is a no-op, and rescaling to S1 and then to S2
\* equals rescaling directly to S2 when no overflow occurs and either the rescale to S1
\* drops no non-zero digit or S2 is not finer than S1.
C22_Rescale ==
    \A T \in {"INT16", "INT32"}, S1 \in NumScales, S2 \in NumScales :
        LET x == ColumnNumber
            own == Rescale(T, x, x.scale)
            a == Rescale(T, x, S1)
            b == Rescale(T, a, S2)
            d == Rescale(T, x, S2)
            exact == S1 <= x.scale \/ x.value % Pow10(S1 - x.scale) = 0
        IN /\ own.outcome = "returned" => own.value = x.value
           /\ (a.outcome = "returned" /\ b.outcome = "returned" /\ d.outcome = "returned"
                  /\ (exact \/ S2 >= S1))
                  => b.value = d.value

C22_Witness ==
    /\ op.name = "get" /\ outcome = "returned" /\ args.scale = <<0>>
    /\ ColumnNumber = [value |-> 12345, scale |-> -2] /\ ~outNull[1]
    /\ ret = [value |-> 123, scale |-> 0]

\* The digits of a text as a number, and the count of characters after its point.
TextMagnitude(str) ==
    LET m == DigitsValue(SelectSeq(str, IsDigit), 0)
    IN IF str # <<>> /\ Head(str) = "-" THEN 0 - m ELSE m

TextFraction(str) ==
    IF \E k \in DOMAIN str : str[k] = "."
      THEN Len(str) - (CHOOSE k \in DOMAIN str : str[k] = ".")
      ELSE 0

\* C23: a text accepted for an integer or fixed-point parameter may hold a decimal point;
\* the digits after the point give the inferred scale, the digits without the point the
\* magnitude, and the magnitude is rescaled to the parameter's scale ("123.45" at scale -2
\* is stored as 12345, "1.5" as 150).
C23_TextScale ==
    [][(op'.name = "setString" /\ args'.index = 0)
          => LET str == args'.value
                 s == 0 - inDescriptors[1].scale
                 f == TextFraction(str)
             IN /\ outcome' = "returned"
                     => /\ inMessage'[1] = IF f <= s
                                              THEN TextMagnitude(str) * Pow10(s - f)
                                              ELSE Quotient(TextMagnitude(str), Pow10(f - s))
                        /\ ~inNull'[1]
                /\ (s = 2 /\ str = <<"1", "2", "3", ".", "4", "5">>)
                     => outcome' = "returned" /\ inMessage'[1] = 12345
                /\ (s = 2 /\ str = <<"1", ".", "5">>)
                     => outcome' = "returned" /\ inMessage'[1] = 150
      ]_vars

C23_Witness ==
    /\ op.name = "setString" /\ outcome = "returned" /\ args.value = <<"1", ".", "5">>
    /\ inDescriptors[1].scale = -2 /\ inMessage = <<150>> /\ ~inNull[1]

\* C24: setting a string parameter to a text longer than the parameter's declared length
\* raises an error and stores nothing, never a truncated text.
C24_TooLongRaises ==
    [][(op'.name = "setString" /\ args'.index = 0
          /\ Len(args'.value) > inDescriptors[1].length)
          => /\ outcome' = "threw_string_truncation"
             /\ UNCHANGED <<inMessage, inNull>>]_vars

\* The outcomes of a setter that raised.
SetterErrors ==
    {"threw_out_of_range", "threw_invalid_type", "threw_conversion", "threw_string_truncation"}

\* C29: a typed setter that raises (wrong type for the parameter, overflow, a non-finite
\* value for an integer parameter, a text that is too long) leaves the null flag and the
\* value of that parameter and of every other parameter unchanged.
C29_FailedSetterFrame ==
    [][(op'.name \in {"setString", "setInt32", "setDouble", "setNull"}
          /\ outcome' \in SetterErrors)
          => UNCHANGED <<inMessage, inNull>>]_vars

C29_Witness ==
    /\ ~legacy /\ op.name = "setString" /\ args.index = 0
    /\ outcome = "threw_string_truncation"
    /\ inMessage = <<<<"a">>, 7>> /\ inNull = <<FALSE, FALSE>>

\* C26: a calendar date converted to the engine's date and back is the same date, the
\* engine's date 0 is 1858-11-17, and an engine timestamp with a valid time of day
\* converted to a Timestamp and back is the same timestamp.
C26_CalendarRoundTrip ==
    [][/\ op'.name = "Date" => ret' = args'.value
       /\ op'.name = "toIscTimestamp" => ret' = args'.value
       /\ (op'.name = "Timestamp" /\ args'.value.timestamp_date = 0)
             => ret'.date = [year |-> 1858, month |-> 11, day |-> 17]
       /\ (op'.name = "toIscDate" /\ args'.value = [year |-> 1858, month |-> 11, day |-> 17])
             => ret' = 0
      ]_vars

C26_Witness ==
    /\ op.name = "Date" /\ args.value = [year |-> 2000, month |-> 2, day |-> 29]
    /\ ret = [year |-> 2000, month |-> 2, day |-> 29]

\* The descriptors and the length the last metadata step produced.
Processed == IF op.name = "processMetadata(in)" THEN inDescriptors ELSE outDescriptors

\* The engine calls of the last step that asked for a revised metadata set.
Requests(fn) == Len(SelectSeq(calls, LAMBDA c : c.fn = fn))

\* C27: when a field of a message needs normalisation, exactly one revised metadata set is
\* requested and every offset, every null-flag offset and the buffer length come from it;
\* when none needs it, none is requested and all come from the original set; the two sets
\* are never mixed.
C27_OneLayout ==
    op.name \in {"processMetadata(in)", "processMetadata(out)"}
        => LET set == IF \E k \in DOMAIN args.fields :
                            args.fields[k] \in {"TEXT", "TIME_TZ_EX", "TIMESTAMP_TZ_EX"}
                        THEN "revised" ELSE "original"
           IN /\ Requests("getBuilder") = (IF set = "revised" THEN 1 ELSE 0)
              /\ Requests("getMetadata") = (IF set = "revised" THEN 1 ELSE 0)
              /\ ret = [from |-> set, what |-> "length"]
              /\ Len(Processed) = Len(args.fields)
              /\ \A k \in DOMAIN Processed :
                     /\ Processed[k].offset = [from |-> set, what |-> "offset", index |-> k - 1]
                     /\ Processed[k].nullOffset
                            = [from |-> set, what |-> "nullOffset", index |-> k - 1]

C27_Witness ==
    /\ op.name = "processMetadata(in)" /\ args.fields = <<"LONG", "TEXT", "TIME_TZ_EX">>
    /\ Len(calls) = 2 /\ inDescriptors[1].offset.from = "revised"

Spec == Init /\ [][Next]_vars

SpecRow == InitRow /\ [][NextRow]_vars

SpecVariant == InitVariant /\ [][NextVariant]_vars

SpecBind == InitBind /\ [][NextBind]_vars

SpecNumber == InitNumber /\ [][NextNumber]_vars

SpecText == InitText /\ [][NextText]_vars

SpecCalendar == InitCalendar /\ [][NextCalendar]_vars

SpecMetadata == InitMetadata /\ [][NextMetadata]_vars

====
